---- MODULE Spec2Model ----
(***************************************************************************)
(* Flat-file storage of MARF trie blobs (chainstate/stacks/index/file.rs): *)
(* the TrieFile blob store with its RAM and Disk backends, the offset      *)
(* cache, the decompressed-content LRU and current-trie slot, the LZ4      *)
(* framing, the export (v1 -> v2) and compress (v2 -> v3) migrations, the   *)
(* selection of the backend from the DB path, the node-hash reader         *)
(* adapter and the post-migration vacuum with its scratch-space            *)
(* environment variables.                                                  *)
(*                                                                         *)
(* The metadata store (trie_sql), the node codec (bits.rs) and lz4_flex    *)
(* are collaborators whose code is not part of file.rs.  trie_sql is       *)
(* modelled from the specification's metadata contract; lz4_flex by the    *)
(* byte format it produces for inputs shorter than 13 bytes (one token,    *)
(* all literals), which covers every buffer of the model.                  *)
(*                                                                         *)
(* A handler that does I/O is split at its I/O steps (write, sync,         *)
(* metadata update) so that a crash or an error return can fall between    *)
(* any two of them; pc is the position of the running call.                *)
(***************************************************************************)
EXTENDS Integers, Sequences, FiniteSets, TLC

\* ------------------------------------------------------------- bounds
\* Longest trie buffer handed to store_trie_blob / held inline in the DB.
MaxLen == 2
\* Largest number of block ids the metadata store comes to hold.
MaxBlocks == 3
\* Capacity of the decompressed-content LRU, scaled down from 255.
LruCap == 2
\* Number of bytes the node codec consumes at the cursor, scaled down.
ReadLen == 1
\* Number of invocations of a migration procedure in one behaviour.
MaxRuns == 2
\* Rows fetched per batch by compress_trie_blobs, scaled down from 1000.
BatchLimit == 2
\* Longest byte sequence handed to the codec on its own.
CodecLen == 5
\* Longest DB path handed to the post-migration vacuum, in characters.
PathLen == 3

Byte == {0, 1}

\* Every byte sequence of length at most n.
RECURSIVE SeqsUpTo(_)
SeqsUpTo(n) ==
    IF n = 0 THEN {<<>>}
    ELSE LET S == SeqsUpTo(n - 1)
         IN  S \cup {Append(s, b) : s \in {t \in S : Len(t) = n - 1}, b \in Byte}

\* Every sequence of length at most n over the set S.
RECURSIVE SeqsOver(_, _)
SeqsOver(S, n) ==
    IF n = 0 THEN {<<>>}
    ELSE LET T == SeqsOver(S, n - 1)
         IN  T \cup {Append(s, x) : s \in {t \in T : Len(t) = n - 1}, x \in S}

Buffers == SeqsUpTo(MaxLen)

BlockIds == 0..(MaxBlocks - 1)

Min(a, b) == IF a < b THEN a ELSE b
Max(a, b) == IF a > b THEN a ELSE b

SetMax(S) == CHOOSE x \in S : \A y \in S : y <= x

\* ------------------------------------------------------------ lz4_flex
\* u32 little-endian, as written by compress_prepend_size.
LE32(n) ==
    << n % 256, (n \div 256) % 256, (n \div 65536) % 256, (n \div 16777216) % 256 >>

FromLE32(s) == s[1] + 256 * s[2] + 65536 * s[3] + 16777216 * s[4]

\* The LZ4 block of a short input: one token whose high nibble is the number
\* of literals, then the literals (no match is emitted below 13 bytes).
lz4_block(buf) == <<16 * Len(buf)>> \o buf

lz4_compress_prepend_size(buf) == LE32(Len(buf)) \o lz4_block(buf)

\* decompress_size_prepended: Err on a truncated prefix, on a block that is not
\* a well-formed literal run, or when the inflated size differs from the prefix.
lz4_decompress_size_prepended(s) ==
    IF Len(s) < 5 THEN [ok |-> FALSE, bytes |-> <<>>]
    ELSE LET size == FromLE32(s)
             tok  == s[5]
             lit  == tok \div 16
         IN  IF tok % 16 = 0 /\ lit < 15 /\ Len(s) = 5 + lit /\ lit = size
             THEN [ok |-> TRUE, bytes |-> SubSeq(s, 6, 5 + lit)]
             ELSE [ok |-> FALSE, bytes |-> <<>>]

\* Variant: the block is produced without the size prefix.
compress_blob_unframed(buf) ==
    [compressed_bytes |-> lz4_block(buf),
     compressed_blob_size |-> Len(lz4_block(buf)),
     compression_algorithm |-> "LZ4"]

\* TrieFile::compress_blob
compress_blob(buf) ==
    LET compressed == lz4_compress_prepend_size(buf)
    IN  [compressed_bytes |-> compressed,
         compressed_blob_size |-> Len(compressed),
         compression_algorithm |-> "LZ4"]

\* ------------------------------------------------------- byte containers
\* Write `bytes` at byte offset `off` of container f (File / Cursor<Vec<u8>>):
\* overwrites what is there, extends the container, zero-fills a gap.
\* Writing nothing changes nothing.
WriteAt(f, off, bytes) ==
    IF Len(bytes) = 0 THEN f
    ELSE [i \in 1..Max(Len(f), off + Len(bytes)) |->
             IF i > off /\ i <= off + Len(bytes) THEN bytes[i - off]
             ELSE IF i <= Len(f) THEN f[i]
             ELSE 0]

\* Read up to n bytes at offset off (a short read at the end of the container).
ReadAt(f, off, n) == SubSeq(f, off + 1, Min(off + n, Len(f)))

\* File::sync_data: the durable content becomes the written content.
SyncData(f, d) == f

\* What a crash leaves of a file whose written content is f and whose synced
\* content is d: the first k bytes of f reached the disk, the rest did not.
CrashOutcomes(f, d) ==
    { SubSeq(f, 1, k) \o SubSeq(d, k + 1, Len(d)) : k \in 0..Len(f) }

\* ------------------------------------------------------------------ LRU
\* LruCache<u32, Vec<u8>> as a sequence of entries, most recently used first.
LruHas(lru, id) == \E k \in 1..Len(lru) : lru[k].id = id

LruIndex(lru, id) == CHOOSE k \in 1..Len(lru) : lru[k].id = id

LruPeek(lru, id) == lru[LruIndex(lru, id)].bytes

LruWithout(lru, id) == SelectSeq(lru, LAMBDA e : e.id # id)

\* Variant: a hit leaves the recency order as it is.
LruGetNoRefresh(lru, id) == lru

\* LruCache::get: a hit makes the entry the most recently used.
LruGet(lru, id) ==
    <<[id |-> id, bytes |-> LruPeek(lru, id)]>> \o LruWithout(lru, id)

\* Variant: a full cache takes the new entry without dropping one.
LruPutNoEvict(lru, id, bytes) ==
    <<[id |-> id, bytes |-> bytes]>> \o LruWithout(lru, id)

\* LruCache::put: replaces or inserts as most recently used; a full cache
\* drops its least recently used entry.
LruPut(lru, id, bytes) ==
    LET rest == LruWithout(lru, id)
        kept == IF Len(rest) >= LruCap THEN SubSeq(rest, 1, LruCap - 1) ELSE rest
    IN  <<[id |-> id, bytes |-> bytes]>> \o kept

\* ------------------------------------------------------- metadata store
\* trie_sql, modelled from the metadata collaborator contract.  A record is
\*   [offset, length, compression, unconfirmed, data]
\* where data is the inline (v1) trie blob, empty once the blob is external.
ExternRecord(offset, length, compression) ==
    [offset |-> offset, length |-> length, compression |-> compression,
     unconfirmed |-> FALSE, data |-> <<>>]

InlineRecord(unconfirmed, data) ==
    [offset |-> 0, length |-> 0, compression |-> "None",
     unconfirmed |-> unconfirmed, data |-> data]

\* get_external_blobs_length: the next append offset, the end of the furthest
\* recorded blob.
get_external_blobs_length(d) ==
    IF DOMAIN d = {} THEN 0
    ELSE SetMax({d[i].offset + d[i].length : i \in DOMAIN d})

\* The fresh BlockId write_external_trie_blob assigns: dense, increasing.
NextBlockId(d) == IF DOMAIN d = {} THEN 0 ELSE SetMax(DOMAIN d) + 1

\* write_external_trie_blob: record a fresh BlockId.
write_external_trie_blob(d, offset, length, compression) ==
    [i \in DOMAIN d \cup {NextBlockId(d)} |->
        IF i \in DOMAIN d THEN d[i] ELSE ExternRecord(offset, length, compression)]

\* update_external_trie_blob: the record of block_id moves to the external
\* location; its inline blob is emptied.
update_external_trie_blob(d, offset, length, compression, block_id) ==
    [d EXCEPT ![block_id] =
        [@ EXCEPT !.offset = offset, !.length = length,
                  !.compression = compression, !.data = <<>>]]

\* update_external_trie_blob_after_compression
update_external_trie_blob_after_compression(d, block_id, offset, length, compression) ==
    [d EXCEPT ![block_id] =
        [@ EXCEPT !.offset = offset, !.length = length, !.compression = compression]]

\* count_blocks: the current maximum block id.
count_blocks(d) == IF DOMAIN d = {} THEN 0 ELSE SetMax(DOMAIN d)

\* get_uncompressed_external_trie_blobs(limit): the external blobs still
\* tagged None, lowest block ids first, at most `limit` of them.
UncompressedIds(d) ==
    {i \in DOMAIN d : d[i].compression = "None" /\ d[i].length > 0}

RECURSIVE LowestIds(_, _)
LowestIds(S, n) ==
    IF n = 0 \/ S = {} THEN <<>>
    ELSE LET m == CHOOSE x \in S : \A y \in S : x <= y
         IN  <<m>> \o LowestIds(S \ {m}, n - 1)

get_uncompressed_external_trie_blobs(d, limit) ==
    LET ids == LowestIds(UncompressedIds(d), limit)
    IN  [k \in 1..Len(ids) |->
            [block_id |-> ids[k], offset |-> d[ids[k]].offset, length |-> d[ids[k]].length]]

\* is_unconfirmed_block: NotFound when block_id denotes no block.
is_unconfirmed_block(d, block_id) ==
    IF block_id \notin DOMAIN d THEN "NotFound"
    ELSE IF d[block_id].unconfirmed THEN "true" ELSE "false"

\* A confirmed block whose blob is still inline / is in the external file.
IsInline(r) == ~r.unconfirmed /\ r.length = 0
IsExternal(r) == ~r.unconfirmed /\ r.length > 0

\* detect_partial_migration_for_schema_v2: the export is not marked complete
\* and some, but not all, confirmed blobs have been moved out of the DB.
detect_partial_migration_for_schema_v2(d, m) ==
    /\ m.version < 2
    /\ \E i \in DOMAIN d : IsExternal(d[i])
    /\ \E i \in DOMAIN d : IsInline(d[i])

\* detect_partial_migration_for_schema_v3: the compression is not marked
\* complete and some, but not all, external blobs have been compressed.
detect_partial_migration_for_schema_v3(d, m) ==
    /\ m.version < 3
    /\ \E i \in DOMAIN d : IsExternal(d[i]) /\ d[i].compression = "LZ4"
    /\ \E i \in DOMAIN d : IsExternal(d[i]) /\ d[i].compression = "None"

\* set_migrated: the schema is marked as the current one.
set_migrated(m) == [m EXCEPT !.version = 3]

\* The caller's compression argument as stored in the record.
CompressionTag(kind_) == IF kind_ = "RAM" THEN "None" ELSE "LZ4"


\* ---------------------------------------------------------------- state
VARIABLES
    kind,               \* TrieFile variant: "RAM" or "Disk"
    fd,                 \* written content of the backend (file / byte buffer)
    durable,            \* content of the disk file that has been synced
    v3,                 \* the file "<path>.v3" that compress_trie_blobs creates
    db,                 \* metadata store: block id -> record
    marks,              \* metadata store: migration markers
    trie_offsets,       \* TrieIdOffsets cache: block id -> [offset, length]
    decompressed_lru,   \* TrieFileDisk.decompressed_lru, most recent first
    current_block_id,   \* Option<u32>: <<>> is None, <<i>> is Some(i)
    current_trie,       \* Option<Cursor<Vec<u8>>>: <<>> or <<bytes>>
    pc,                 \* position of the running call
    loc,                \* locals of the running call
    result,             \* what the last completed call returned
    orig,               \* history: block id -> the trie bytes it was given
    hist                \* history: writes, crashes, migration runs

fileVars  == <<fd, durable, v3>>
dbVars    == <<db, marks>>
cacheVars == <<trie_offsets, decompressed_lru, current_block_id, current_trie>>
vars == <<kind, fd, durable, v3, db, marks, trie_offsets, decompressed_lru,
          current_block_id, current_trie, pc, loc, result, orig, hist>>

EmptyMap == [i \in {} |-> 0]

MapPut(m, k, v) == [i \in DOMAIN m \cup {k} |-> IF i = k THEN v ELSE m[i]]

NoLoc ==
    [op |-> "none", buf |-> <<>>, offset |-> 0, out |-> <<>>,
     block_id |-> 0, max_block |-> 0, batch |-> <<>>]

NoResult == [op |-> "none", status |-> "none", id |-> 0, ptr |-> 0, bytes |-> <<>>]

Returned(op, status) == [NoResult EXCEPT !.op = op, !.status = status]

NoV3 == [exists |-> FALSE, fd |-> <<>>, durable |-> <<>>]

\* A metadata store created by this version of the node.
NoMarks == [version |-> 3]

\* No migration procedure has been invoked.
NoRun == [op |-> "none", state |-> "none", nth |-> 0]

\* History: crashed -- the machine has crashed; orphan -- the byte range a
\* crash left unpublished; wr -- the last write to a backend; runs -- entries
\* into a migration procedure; run -- the last migration invoked, its state and
\* how many runs of it had completed when it was entered; done -- completed
\* runs per procedure; appended -- the block ids appended by that run, in
\* order; created -- files it created or opened; dbEntry -- the metadata
\* records when it was entered; used -- the block ids this process has put into
\* or hit in the LRU, the latest first; ret -- what the last append_trie_blob
\* of this process returned; pos -- the position at which the last seek, read
\* or write left this store's backend (no step depends on it: each seeks to an
\* absolute offset first); vacuum -- how far the post-migration vacuum of the
\* last export got: "none", "running", "ok" or "failed"; raced -- another
\* handle stored a blob while an export stood between its offset computation
\* and its metadata update.
NoHist ==
    [crashed |-> FALSE, orphan |-> <<>>, wr |-> <<>>, runs |-> 0, run |-> NoRun,
     done |-> [export |-> 0, compress |-> 0],
     appended |-> <<>>, created |-> 0, dbEntry |-> EmptyMap,
     used |-> <<>>, ret |-> <<>>, pos |-> 0, vacuum |-> "none", raced |-> FALSE]

\* The use of block id `id` in the LRU (a put, or a get that hits), recorded.
Touch(used, id) == <<id>> \o SelectSeq(used, LAMBDA x : x # id)

\* The BlobStorageResult of an append, as the history records it.
AppendResult(offset, storage_size) ==
    <<[offset |-> offset, storage_size |-> storage_size]>>

\* TrieFile::new_disk / new_ram: empty caches, nothing loaded.
NewCaches ==
    /\ trie_offsets' = EmptyMap
    /\ decompressed_lru' = <<>>
    /\ current_block_id' = <<>>
    /\ current_trie' = <<>>

\* A fresh store on a fresh metadata store (from_db_path on a new path).
Init ==
    /\ kind \in {"RAM", "Disk"}
    /\ fd = <<>>
    /\ durable = <<>>
    /\ v3 = NoV3
    /\ db = EmptyMap
    /\ marks = NoMarks
    /\ trie_offsets = EmptyMap
    /\ decompressed_lru = <<>>
    /\ current_block_id = <<>>
    /\ current_trie = <<>>
    /\ pc = "idle"
    /\ loc = NoLoc
    /\ result = NoResult
    /\ orig = EmptyMap
    /\ hist = NoHist

\* The call returns `status` to its caller without further effect.
Return(op, status) ==
    /\ pc' = "idle"
    /\ loc' = NoLoc
    /\ result' = Returned(op, status)

\* One write to the backend, as the history records it: where it started and
\* how long the container was.
WriteRecord(file, offset, before, n) ==
    <<[file |-> file, offset |-> offset, before |-> before, n |-> n]>>

\* ------------------------------------------------ store_trie_blob (append)
\* append_trie_blob, first half: the offset comes from the metadata store, the
\* backend seeks there, the disk variant compresses.
AppendBytes(buf) == IF kind = "RAM" THEN buf ELSE compress_blob(buf).compressed_bytes

\* Variant: the append offset is never fetched from the metadata store.
StoreBeginAtZero(buf) ==
    /\ pc = "idle"
    /\ NextBlockId(db) < MaxBlocks
    /\ pc' = "st_write"
    /\ loc' = [NoLoc EXCEPT !.op = "store", !.buf = buf, !.offset = 0,
                            !.out = AppendBytes(buf)]
    /\ result' = NoResult
    /\ hist' = [hist EXCEPT !.orphan = <<>>, !.pos = loc'.offset]
    /\ UNCHANGED <<kind, fileVars, dbVars, cacheVars, orig>>

StoreBegin(buf) ==
    /\ pc = "idle"
    /\ NextBlockId(db) < MaxBlocks
    /\ pc' = "st_write"
    /\ loc' = [NoLoc EXCEPT !.op = "store", !.buf = buf,
                            !.offset = get_external_blobs_length(db),
                            !.out = AppendBytes(buf)]
    /\ result' = NoResult
    /\ hist' = [hist EXCEPT !.orphan = <<>>, !.pos = loc'.offset]
    /\ UNCHANGED <<kind, fileVars, dbVars, cacheVars, orig>>

\* append_trie_blob: get_external_blobs_length or the seek fails.
StoreBeginFail ==
    /\ pc = "idle"
    /\ NextBlockId(db) < MaxBlocks
    /\ \E e \in {"db_error", "io_error"} : Return("store", e)
    /\ hist' = [hist EXCEPT !.orphan = <<>>]
    /\ UNCHANGED <<kind, fileVars, dbVars, cacheVars, orig>>

\* Variant: the write lands at the end of the file while the offset returned
\* is still the metadata store's.
StoreWriteAtEnd ==
    /\ pc = "st_write"
    /\ fd' = WriteAt(fd, Len(fd), loc.out)
    /\ hist' = [hist EXCEPT
                  !.wr = WriteRecord("fd", Len(fd), Len(fd), Len(loc.out)),
                  !.pos = Len(fd) + Len(loc.out),
                  !.ret = IF kind = "RAM" THEN AppendResult(loc.offset, Len(loc.out))
                          ELSE @]
    /\ pc' = IF kind = "Disk" THEN "st_sync" ELSE "st_publish"
    /\ UNCHANGED <<kind, durable, v3, dbVars, cacheVars, orig, loc, result>>

\* Variant: one write call that takes the first byte, in place of write_all.
StoreWriteFirstByte ==
    /\ pc = "st_write"
    /\ fd' = WriteAt(fd, loc.offset, SubSeq(loc.out, 1, Min(1, Len(loc.out))))
    /\ hist' = [hist EXCEPT
                  !.wr = WriteRecord("fd", loc.offset, Len(fd), Min(1, Len(loc.out))),
                  !.pos = loc.offset + Min(1, Len(loc.out)),
                  !.ret = IF kind = "RAM" THEN AppendResult(loc.offset, Len(loc.out))
                          ELSE @]
    /\ pc' = IF kind = "Disk" THEN "st_sync" ELSE "st_publish"
    /\ UNCHANGED <<kind, durable, v3, dbVars, cacheVars, orig, loc, result>>

\* append_trie_blob, write_all + flush.
StoreWrite ==
    /\ pc = "st_write"
    /\ fd' = WriteAt(fd, loc.offset, loc.out)
    /\ hist' = [hist EXCEPT
                  !.wr = WriteRecord("fd", loc.offset, Len(fd), Len(loc.out)),
                  !.pos = loc.offset + Len(loc.out),
                  !.ret = IF kind = "RAM" THEN AppendResult(loc.offset, Len(loc.out))
                          ELSE @]
    /\ pc' = IF kind = "Disk" THEN "st_sync" ELSE "st_publish"
    /\ UNCHANGED <<kind, durable, v3, dbVars, cacheVars, orig, loc, result>>

\* append_trie_blob: write_all on the file fails; any proper prefix of the
\* bytes may have been written.
StoreWriteFail ==
    /\ pc = "st_write"
    /\ kind = "Disk"
    /\ \E k \in 0..(Len(loc.out) - 1) :
          /\ fd' = WriteAt(fd, loc.offset, SubSeq(loc.out, 1, k))
          /\ hist' = [hist EXCEPT !.wr = WriteRecord("fd", loc.offset, Len(fd), k),
                                  !.pos = loc.offset + k]
    /\ Return("store", "io_error")
    /\ UNCHANGED <<kind, durable, v3, dbVars, cacheVars, orig>>

\* Variant: the append returns without sync_data.
StoreSyncSkipped ==
    /\ pc = "st_sync"
    /\ pc' = "st_publish"
    /\ hist' = [hist EXCEPT !.ret = AppendResult(loc.offset, Len(loc.out))]
    /\ UNCHANGED <<kind, fileVars, dbVars, cacheVars, orig, loc, result>>

\* append_trie_blob, disk.fd.sync_data().
StoreSync ==
    /\ pc = "st_sync"
    /\ durable' = SyncData(fd, durable)
    /\ pc' = "st_publish"
    /\ hist' = [hist EXCEPT !.ret = AppendResult(loc.offset, Len(loc.out))]
    /\ UNCHANGED <<kind, fd, v3, dbVars, cacheVars, orig, loc, result>>

\* append_trie_blob: sync_data fails.
StoreSyncFail ==
    /\ pc = "st_sync"
    /\ Return("store", "io_error")
    /\ UNCHANGED <<kind, fileVars, dbVars, cacheVars, orig, hist>>

\* Variant: the record gets the size of the blob before compression.
StorePublishRawSize ==
    /\ pc = "st_publish"
    /\ LET block_id == NextBlockId(db)
       IN  /\ db' = write_external_trie_blob(db, loc.offset, Len(loc.buf),
                                             CompressionTag(kind))
           /\ decompressed_lru' =
                 IF kind = "Disk" THEN LruPut(decompressed_lru, block_id, loc.buf)
                 ELSE decompressed_lru
           /\ hist' = IF kind = "Disk"
                       THEN [hist EXCEPT !.used = Touch(hist.used, block_id)]
                       ELSE hist
           /\ orig' = MapPut(orig, block_id, loc.buf)
           /\ result' = [Returned("store", "ok") EXCEPT !.id = block_id]
    /\ pc' = "idle"
    /\ loc' = NoLoc
    /\ UNCHANGED <<kind, fileVars, marks, trie_offsets, current_block_id,
                   current_trie>>

\* Variant: the LRU is seeded with the bytes that were written to the file.
StorePublishSeedsStored ==
    /\ pc = "st_publish"
    /\ LET block_id == NextBlockId(db)
       IN  /\ db' = write_external_trie_blob(db, loc.offset, Len(loc.out),
                                             CompressionTag(kind))
           /\ decompressed_lru' =
                 IF kind = "Disk" THEN LruPut(decompressed_lru, block_id, loc.out)
                 ELSE decompressed_lru
           /\ hist' = IF kind = "Disk"
                       THEN [hist EXCEPT !.used = Touch(hist.used, block_id)]
                       ELSE hist
           /\ orig' = MapPut(orig, block_id, loc.buf)
           /\ result' = [Returned("store", "ok") EXCEPT !.id = block_id]
    /\ pc' = "idle"
    /\ loc' = NoLoc
    /\ UNCHANGED <<kind, fileVars, marks, trie_offsets, current_block_id,
                   current_trie>>

\* store_trie_blob after the append: register the blob, seed the LRU (disk).
StorePublish ==
    /\ pc = "st_publish"
    /\ LET block_id == NextBlockId(db)
       IN  /\ db' = write_external_trie_blob(db, loc.offset, Len(loc.out),
                                             CompressionTag(kind))
           /\ decompressed_lru' =
                 IF kind = "Disk" THEN LruPut(decompressed_lru, block_id, loc.buf)
                 ELSE decompressed_lru
           /\ hist' = IF kind = "Disk"
                       THEN [hist EXCEPT !.used = Touch(hist.used, block_id)]
                       ELSE hist
           /\ orig' = MapPut(orig, block_id, loc.buf)
           /\ result' = [Returned("store", "ok") EXCEPT !.id = block_id]
    /\ pc' = "idle"
    /\ loc' = NoLoc
    /\ UNCHANGED <<kind, fileVars, marks, trie_offsets, current_block_id,
                   current_trie>>

\* Variant: the LRU is seeded before the registration, under the block id the
\* registration is expected to return.
StorePublishFailSeeded ==
    /\ pc = "st_publish"
    /\ Return("store", "db_error")
    /\ decompressed_lru' =
          IF kind = "Disk" THEN LruPut(decompressed_lru, NextBlockId(db), loc.buf)
          ELSE decompressed_lru
    /\ UNCHANGED <<kind, fileVars, dbVars, trie_offsets, current_block_id,
                   current_trie, orig, hist>>

\* store_trie_blob: write_external_trie_blob fails.
StorePublishFail ==
    /\ pc = "st_publish"
    /\ Return("store", "db_error")
    /\ UNCHANGED <<kind, fileVars, dbVars, cacheVars, orig, hist>>

\* Variant: the location fetched on a miss is returned without being cached.
GetTrieOffsetNoInsert(offs, block_id, fault) ==
    IF block_id \in DOMAIN offs
    THEN [status |-> "ok", at |-> offs[block_id], offs |-> offs]
    ELSE IF fault
    THEN [status |-> "db_error", at |-> [offset |-> 0, length |-> 0], offs |-> offs]
    ELSE IF block_id \notin DOMAIN db
    THEN [status |-> "not_found", at |-> [offset |-> 0, length |-> 0], offs |-> offs]
    ELSE LET offset == [offset |-> db[block_id].offset, length |-> db[block_id].length]
         IN  [status |-> "ok", at |-> offset, offs |-> offs]

\* ------------------------------------------------------------ read path
\* get_trie_offset (TrieFileDisk and TrieFileRAM alike): the cached entry, or
\* the metadata store's answer, which is then cached.  `fault` is a failing
\* metadata query.
GetTrieOffset(offs, block_id, fault) ==
    IF block_id \in DOMAIN offs
    THEN [status |-> "ok", at |-> offs[block_id], offs |-> offs]
    ELSE IF fault
    THEN [status |-> "db_error", at |-> [offset |-> 0, length |-> 0], offs |-> offs]
    ELSE IF block_id \notin DOMAIN db
    THEN [status |-> "not_found", at |-> [offset |-> 0, length |-> 0], offs |-> offs]
    ELSE LET offset == [offset |-> db[block_id].offset, length |-> db[block_id].length]
         IN  [status |-> "ok", at |-> offset, offs |-> MapPut(offs, block_id, offset)]

\* Variant: load_trie_blob never assigns current_block_id.
LoadedKeepsId(status, offs, lru, cid, ctrie, pos) ==
    [status |-> status, offs |-> offs, lru |-> lru, cid |-> current_block_id,
     ctrie |-> ctrie, pos |-> pos]

\* Variant: a load that fails leaves no trie loaded.
LoadedDropsCurrent(status, offs, lru, cid, ctrie, pos) ==
    [status |-> status, offs |-> offs, lru |-> lru,
     cid |-> IF status \in {"ok", "panic"} THEN cid ELSE <<>>,
     ctrie |-> IF status \in {"ok", "panic"} THEN ctrie ELSE <<>>,
     pos |-> pos]

\* The caches and the file position as load_trie_blob leaves them, with the
\* outcome of the call.
Loaded(status, offs, lru, cid, ctrie, pos) ==
    [status |-> status, offs |-> offs, lru |-> lru, cid |-> cid, ctrie |-> ctrie,
     pos |-> pos]

\* Variant: the block is made the current one before its bytes are
\* decompressed.
LoadTrieBlobMarksFirst(block_id, fault) ==
    IF current_block_id = <<block_id>>
    THEN Loaded("ok", trie_offsets, decompressed_lru, current_block_id, current_trie,
                hist.pos)
    ELSE IF LruHas(decompressed_lru, block_id)
    THEN Loaded("ok", trie_offsets, LruGet(decompressed_lru, block_id),
                <<block_id>>, <<LruPeek(decompressed_lru, block_id)>>, hist.pos)
    ELSE LET extern_trie == GetTrieOffset(trie_offsets, block_id, fault)
             buf == ReadAt(fd, extern_trie.at.offset, extern_trie.at.length)
             decompressed == lz4_decompress_size_prepended(buf)
         IN  IF extern_trie.status # "ok"
             THEN Loaded(extern_trie.status, trie_offsets, decompressed_lru,
                         current_block_id, current_trie, hist.pos)
             ELSE IF ~decompressed.ok
             THEN Loaded("panic", extern_trie.offs, decompressed_lru,
                         <<block_id>>, current_trie,
                         extern_trie.at.offset + Len(buf))
             ELSE Loaded("ok", extern_trie.offs,
                         LruPut(decompressed_lru, block_id, decompressed.bytes),
                         <<block_id>>, <<decompressed.bytes>>,
                         extern_trie.at.offset + Len(buf))

\* Variant: the current block is looked up in the LRU like any other.
LoadTrieBlobNoFastPath(block_id, fault) ==
    IF LruHas(decompressed_lru, block_id)
    THEN Loaded("ok", trie_offsets, LruGet(decompressed_lru, block_id),
                <<block_id>>, <<LruPeek(decompressed_lru, block_id)>>, hist.pos)
    ELSE LET extern_trie == GetTrieOffset(trie_offsets, block_id, fault)
             buf == ReadAt(fd, extern_trie.at.offset, extern_trie.at.length)
             decompressed == lz4_decompress_size_prepended(buf)
         IN  IF extern_trie.status # "ok"
             THEN Loaded(extern_trie.status, trie_offsets, decompressed_lru,
                         current_block_id, current_trie, hist.pos)
             ELSE IF ~decompressed.ok
             THEN Loaded("panic", extern_trie.offs, decompressed_lru,
                         current_block_id, current_trie,
                         extern_trie.at.offset + Len(buf))
             ELSE Loaded("ok", extern_trie.offs,
                         LruPut(decompressed_lru, block_id, decompressed.bytes),
                         <<block_id>>, <<decompressed.bytes>>,
                         extern_trie.at.offset + Len(buf))

\* Variant: a hit in the LRU is read with peek, which leaves the recency order
\* as it is.
LoadTrieBlobPeeks(block_id, fault) ==
    IF current_block_id = <<block_id>>
    THEN Loaded("ok", trie_offsets, decompressed_lru, current_block_id, current_trie,
                hist.pos)
    ELSE IF LruHas(decompressed_lru, block_id)
    THEN Loaded("ok", trie_offsets, decompressed_lru,
                <<block_id>>, <<LruPeek(decompressed_lru, block_id)>>, hist.pos)
    ELSE LET extern_trie == GetTrieOffset(trie_offsets, block_id, fault)
             buf == ReadAt(fd, extern_trie.at.offset, extern_trie.at.length)
             decompressed == lz4_decompress_size_prepended(buf)
         IN  IF extern_trie.status # "ok"
             THEN Loaded(extern_trie.status, trie_offsets, decompressed_lru,
                         current_block_id, current_trie, hist.pos)
             ELSE IF ~decompressed.ok
             THEN Loaded("panic", extern_trie.offs, decompressed_lru,
                         current_block_id, current_trie,
                         extern_trie.at.offset + Len(buf))
             ELSE Loaded("ok", extern_trie.offs,
                         LruPut(decompressed_lru, block_id, decompressed.bytes),
                         <<block_id>>, <<decompressed.bytes>>,
                         extern_trie.at.offset + Len(buf))

\* TrieFileDisk::load_trie_blob
LoadTrieBlob(block_id, fault) ==
    IF current_block_id = <<block_id>>
    THEN Loaded("ok", trie_offsets, decompressed_lru, current_block_id, current_trie,
                hist.pos)
    ELSE IF LruHas(decompressed_lru, block_id)
    THEN Loaded("ok", trie_offsets, LruGet(decompressed_lru, block_id),
                <<block_id>>, <<LruPeek(decompressed_lru, block_id)>>, hist.pos)
    ELSE LET extern_trie == GetTrieOffset(trie_offsets, block_id, fault)
             buf == ReadAt(fd, extern_trie.at.offset, extern_trie.at.length)
             decompressed == lz4_decompress_size_prepended(buf)
         IN  IF extern_trie.status # "ok"
             THEN Loaded(extern_trie.status, trie_offsets, decompressed_lru,
                         current_block_id, current_trie, hist.pos)
             ELSE IF ~decompressed.ok
             THEN Loaded("panic", extern_trie.offs, decompressed_lru,
                         current_block_id, current_trie,
                         extern_trie.at.offset + Len(buf))
             ELSE Loaded("ok", extern_trie.offs,
                         LruPut(decompressed_lru, block_id, decompressed.bytes),
                         <<block_id>>, <<decompressed.bytes>>,
                         extern_trie.at.offset + Len(buf))

\* TrieFileDisk::load_trie_blob when the backend fails: the seek returns an
\* error, or (sought) the seek succeeds and the read returns an error.  The
\* paths that do not reach the backend are those of load_trie_blob.
LoadTrieBlobIoFail(block_id, sought) ==
    IF current_block_id = <<block_id>>
    THEN Loaded("ok", trie_offsets, decompressed_lru, current_block_id, current_trie,
                hist.pos)
    ELSE IF LruHas(decompressed_lru, block_id)
    THEN Loaded("ok", trie_offsets, LruGet(decompressed_lru, block_id),
                <<block_id>>, <<LruPeek(decompressed_lru, block_id)>>, hist.pos)
    ELSE LET extern_trie == GetTrieOffset(trie_offsets, block_id, FALSE)
         IN  IF extern_trie.status # "ok"
             THEN Loaded(extern_trie.status, trie_offsets, decompressed_lru,
                         current_block_id, current_trie, hist.pos)
             ELSE Loaded("io_error", extern_trie.offs, decompressed_lru,
                         current_block_id, current_trie,
                         IF sought THEN extern_trie.at.offset ELSE hist.pos)

\* The node codec at the cursor (read_hash_bytes, read_nodetype_at_head,
\* read_nodetype_at_head_nohash): it consumes ReadLen bytes of the stream, and
\* fails on a stream that ends before.
Codec(stream, pos) ==
    LET got == ReadAt(stream, pos, ReadLen)
    IN  IF Len(got) = ReadLen
        THEN [status |-> "ok", bytes |-> got, pos |-> pos + ReadLen]
        ELSE [status |-> "io_error", bytes |-> <<>>, pos |-> pos + Len(got)]

ReadReturned(block_id, ptr, status, bytes) ==
    [op |-> "read", status |-> status, id |-> block_id, ptr |-> ptr, bytes |-> bytes]

\* Variant: the codec is handed the current trie's cursor where it stands, at
\* the start, without the seek to ptr.
DiskReadNoSeek(block_id, ptr, fault) ==
    \E l \in {LoadTrieBlob(block_id, fault)} :
    LET c == Codec(l.ctrie[1], 0)
    IN  /\ trie_offsets' = l.offs
        /\ decompressed_lru' = l.lru
        /\ current_block_id' = l.cid
        /\ current_trie' = l.ctrie
        /\ hist' = [hist EXCEPT
                      !.used = IF current_block_id # <<block_id>>
                                  /\ (LruHas(decompressed_lru, block_id) \/ l.status = "ok")
                               THEN Touch(hist.used, block_id) ELSE @,
                      !.pos = l.pos]
        /\ pc' = IF l.status = "panic" THEN "panicked" ELSE "idle"
        /\ result' = IF l.status = "ok"
                     THEN ReadReturned(block_id, ptr, c.status, c.bytes)
                     ELSE ReadReturned(block_id, ptr, l.status, <<>>)

\* A read on the disk variant: load the trie, seek the current trie's cursor
\* to ptr, hand the cursor to the codec.
DiskRead(block_id, ptr, fault) ==
    \E l \in {LoadTrieBlob(block_id, fault)} :
    LET c == Codec(l.ctrie[1], ptr)
    IN  /\ trie_offsets' = l.offs
        /\ decompressed_lru' = l.lru
        /\ current_block_id' = l.cid
        /\ current_trie' = l.ctrie
        /\ hist' = [hist EXCEPT
                      !.used = IF current_block_id # <<block_id>>
                                  /\ (LruHas(decompressed_lru, block_id) \/ l.status = "ok")
                               THEN Touch(hist.used, block_id) ELSE @,
                      !.pos = l.pos]
        /\ pc' = IF l.status = "panic" THEN "panicked" ELSE "idle"
        /\ result' = IF l.status = "ok"
                     THEN ReadReturned(block_id, ptr, c.status, c.bytes)
                     ELSE ReadReturned(block_id, ptr, l.status, <<>>)

\* A read on the disk variant whose load_trie_blob meets a failing backend.
DiskReadIoFail(block_id, ptr, sought) ==
    \E l \in {LoadTrieBlobIoFail(block_id, sought)} :
    LET c == Codec(l.ctrie[1], ptr)
    IN  /\ trie_offsets' = l.offs
        /\ decompressed_lru' = l.lru
        /\ current_block_id' = l.cid
        /\ current_trie' = l.ctrie
        /\ hist' = [hist EXCEPT
                      !.used = IF current_block_id # <<block_id>>
                                  /\ LruHas(decompressed_lru, block_id)
                               THEN Touch(hist.used, block_id) ELSE @,
                      !.pos = l.pos]
        /\ pc' = "idle"
        /\ result' = IF l.status = "ok"
                     THEN ReadReturned(block_id, ptr, c.status, c.bytes)
                     ELSE ReadReturned(block_id, ptr, l.status, <<>>)

\* Variant: the buffer is sought to ptr alone, without the trie's offset.
RamReadNoBase(block_id, ptr, fault) ==
    \E trie \in {GetTrieOffset(trie_offsets, block_id, fault)} :
    LET c == Codec(fd, ptr)
    IN  /\ trie_offsets' = trie.offs
        /\ UNCHANGED <<decompressed_lru, current_block_id, current_trie>>
        /\ hist' = [hist EXCEPT !.pos = IF trie.status = "ok" THEN c.pos ELSE @]
        /\ pc' = "idle"
        /\ result' = IF trie.status = "ok"
                     THEN ReadReturned(block_id, ptr, c.status, c.bytes)
                     ELSE ReadReturned(block_id, ptr, trie.status, <<>>)

\* A read on the RAM variant: seek the buffer to trie.offset + ptr, hand the
\* buffer to the codec.
RamRead(block_id, ptr, fault) ==
    \E trie \in {GetTrieOffset(trie_offsets, block_id, fault)} :
    LET c == Codec(fd, trie.at.offset + ptr)
    IN  /\ trie_offsets' = trie.offs
        /\ UNCHANGED <<decompressed_lru, current_block_id, current_trie>>
        /\ hist' = [hist EXCEPT !.pos = IF trie.status = "ok" THEN c.pos ELSE @]
        /\ pc' = "idle"
        /\ result' = IF trie.status = "ok"
                     THEN ReadReturned(block_id, ptr, c.status, c.bytes)
                     ELSE ReadReturned(block_id, ptr, trie.status, <<>>)

ReadFrame == UNCHANGED <<kind, fileVars, dbVars, loc, orig>>

\* TrieFile::get_node_hash_bytes
get_node_hash_bytes(block_id, ptr, fault) ==
    /\ pc = "idle"
    /\ ReadFrame
    /\ IF kind = "RAM" THEN RamRead(block_id, ptr, fault)
       ELSE DiskRead(block_id, ptr, fault)

\* TrieFile::read_node_type
read_node_type(block_id, ptr, fault) ==
    /\ pc = "idle"
    /\ ReadFrame
    /\ IF kind = "RAM" THEN RamRead(block_id, ptr, fault)
       ELSE DiskRead(block_id, ptr, fault)

\* TrieFile::read_node_type_nohash
read_node_type_nohash(block_id, ptr, fault) ==
    /\ pc = "idle"
    /\ ReadFrame
    /\ IF kind = "Disk" THEN DiskRead(block_id, ptr, fault)
       ELSE RamRead(block_id, ptr, fault)

Ptrs == 0..(MaxLen - 1)

Read ==
    \E block_id \in BlockIds, ptr \in Ptrs :
        \/ get_node_hash_bytes(block_id, ptr, FALSE)
        \/ read_node_type(block_id, ptr, FALSE)
        \/ read_node_type_nohash(block_id, ptr, FALSE)

\* A read during which the metadata store fails every query.
ReadFault ==
    \E block_id \in BlockIds, ptr \in Ptrs :
        \/ get_node_hash_bytes(block_id, ptr, TRUE)
        \/ read_node_type(block_id, ptr, TRUE)
        \/ read_node_type_nohash(block_id, ptr, TRUE)

\* A read (get_node_hash_bytes, read_node_type or read_node_type_nohash) on a
\* disk-backed store while the blob file fails every seek or every read.
ReadIoFault ==
    /\ pc = "idle"
    /\ kind = "Disk"
    /\ ReadFrame
    /\ \E block_id \in BlockIds, ptr \in Ptrs, sought \in BOOLEAN :
          DiskReadIoFail(block_id, ptr, sought)

\* TrieFileNodeHashReader::read_node_hash_bytes, on a reader made by
\* TrieFileNodeHashReader::new(db, file, block_id): the TrieFile itself (its
\* backend, through the Seek and Read plumbing) is sought to ptr and the codec
\* reads the hash there, which is written to w.
read_node_hash_bytes(block_id, ptr) ==
    /\ pc = "idle"
    /\ ReadFrame
    /\ LET c == Codec(fd, ptr)
       IN  /\ result' = [op |-> "reader", status |-> c.status, id |-> block_id,
                         ptr |-> ptr, bytes |-> c.bytes]
           /\ hist' = [hist EXCEPT !.pos = c.pos]
    /\ UNCHANGED <<pc, cacheVars>>

ReaderRead ==
    \E block_id \in BlockIds, ptr \in Ptrs : read_node_hash_bytes(block_id, ptr)

\* ------------------------------------------------------ crash and restart
\* The machine stops at any point of a disk-backed store's life and the node
\* starts again: each file keeps what had reached the disk, the process state
\* (caches, running call) is gone, the metadata store keeps what it recorded.
Crash ==
    /\ kind = "Disk"
    /\ \E f \in CrashOutcomes(fd, durable) :
          /\ fd' = f
          /\ durable' = f
          /\ hist' = [hist EXCEPT
                        !.crashed = TRUE,
                        !.run = IF hist.run.state = "running"
                                THEN [hist.run EXCEPT !.state = "crashed"]
                                ELSE hist.run,
                        !.orphan = IF pc \in {"st_sync", "st_publish"} /\ Len(f) > loc.offset
                                   THEN <<loc.offset, Len(f)>> ELSE <<>>,
                        !.used = <<>>,
                        !.ret = <<>>,
                        !.pos = 0]
    /\ \E g \in CrashOutcomes(v3.fd, v3.durable) :
          v3' = [v3 EXCEPT !.fd = g, !.durable = g]
    /\ NewCaches
    /\ pc' = "idle"
    /\ loc' = NoLoc
    /\ result' = NoResult
    /\ UNCHANGED <<kind, dbVars, orig>>

\* After a panic the process is started again; the files keep their content.
Restart ==
    /\ pc = "panicked"
    /\ NewCaches
    /\ pc' = "idle"
    /\ loc' = NoLoc
    /\ result' = NoResult
    /\ hist' = [hist EXCEPT !.used = <<>>, !.ret = <<>>, !.pos = 0]
    /\ UNCHANGED <<kind, fileVars, dbVars, orig>>

\* ------------------------------------------------------ export_trie_blobs
\* The history at the entry of a migration procedure.
Entered(op) ==
    [hist EXCEPT !.runs = hist.runs + 1,
                 !.run = [op |-> op, state |-> "running", nth |-> hist.done[op]],
                 !.appended = <<>>, !.created = 0, !.dbEntry = db,
                 !.vacuum = "none"]

\* The history when a migration procedure returns Ok.
Completed(op) ==
    [hist EXCEPT !.run = [hist.run EXCEPT !.state = "done"],
                 !.done = [hist.done EXCEPT ![op] = hist.done[op] + 1]]

\* Variant: the export goes on whatever the partial-migration check says.
ExportBeginUnchecked ==
    /\ pc = "idle"
    /\ hist.runs < MaxRuns
    /\ pc' = "ex_loop"
    /\ loc' = [NoLoc EXCEPT !.op = "export", !.max_block = count_blocks(db)]
    /\ hist' = Entered("export")
    /\ result' = NoResult
    /\ UNCHANGED <<kind, fileVars, dbVars, cacheVars, orig>>

\* export_trie_blobs, entry: a partial migration is fatal; otherwise count the
\* blocks and start the pass at block id 0.
ExportBegin ==
    /\ pc = "idle"
    /\ hist.runs < MaxRuns
    /\ IF detect_partial_migration_for_schema_v2(db, marks)
       THEN /\ pc' = "panicked"
            /\ loc' = [NoLoc EXCEPT !.op = "export"]
            /\ UNCHANGED hist
       ELSE /\ pc' = "ex_loop"
            /\ loc' = [NoLoc EXCEPT !.op = "export", !.max_block = count_blocks(db)]
            /\ hist' = Entered("export")
    /\ result' = NoResult
    /\ UNCHANGED <<kind, fileVars, dbVars, cacheVars, orig>>

\* Variant: only a block id that is not a block is skipped.
ExportBlockNoSkip ==
    /\ pc = "ex_loop"
    /\ loc.block_id <= loc.max_block
    /\ IF is_unconfirmed_block(db, loc.block_id) = "NotFound"
       THEN /\ loc' = [loc EXCEPT !.block_id = loc.block_id + 1]
            /\ UNCHANGED pc
       ELSE /\ loc' = [loc EXCEPT !.buf = db[loc.block_id].data,
                                  !.offset = Len(fd),
                                  !.out = compress_blob(db[loc.block_id].data).compressed_bytes]
            /\ pc' = "ex_write"
    /\ hist' = [hist EXCEPT !.pos = IF pc' = "ex_write" THEN Len(fd) ELSE @]
    /\ UNCHANGED <<kind, fileVars, dbVars, cacheVars, result, orig>>

\* Variant: the blob is written at the start of the file, without the seek to
\* its end.
ExportBlockAtStart ==
    /\ pc = "ex_loop"
    /\ loc.block_id <= loc.max_block
    /\ IF is_unconfirmed_block(db, loc.block_id) \in {"true", "NotFound"}
       THEN /\ loc' = [loc EXCEPT !.block_id = loc.block_id + 1]
            /\ UNCHANGED pc
       ELSE /\ loc' = [loc EXCEPT !.buf = db[loc.block_id].data,
                                  !.offset = 0,
                                  !.out = compress_blob(db[loc.block_id].data).compressed_bytes]
            /\ pc' = "ex_write"
    /\ hist' = [hist EXCEPT !.pos = IF pc' = "ex_write" THEN 0 ELSE @]
    /\ UNCHANGED <<kind, fileVars, dbVars, cacheVars, result, orig>>

\* export_trie_blobs, one turn of the loop up to the write: skip an
\* unconfirmed block and a block id that is not a block; otherwise read the
\* inline blob, seek to the end of the file and compress.
ExportBlock ==
    /\ pc = "ex_loop"
    /\ loc.block_id <= loc.max_block
    /\ IF is_unconfirmed_block(db, loc.block_id) \in {"true", "NotFound"}
       THEN /\ loc' = [loc EXCEPT !.block_id = loc.block_id + 1]
            /\ UNCHANGED pc
       ELSE /\ loc' = [loc EXCEPT !.buf = db[loc.block_id].data,
                                  !.offset = Len(fd),
                                  !.out = compress_blob(db[loc.block_id].data).compressed_bytes]
            /\ pc' = "ex_write"
    /\ hist' = [hist EXCEPT !.pos = IF pc' = "ex_write" THEN Len(fd) ELSE @]
    /\ UNCHANGED <<kind, fileVars, dbVars, cacheVars, result, orig>>

\* export_trie_blobs: write_all + flush (File::flush does nothing).
ExportWrite ==
    /\ pc = "ex_write"
    /\ fd' = WriteAt(fd, loc.offset, loc.out)
    /\ hist' = [hist EXCEPT !.wr = WriteRecord("fd", loc.offset, Len(fd), Len(loc.out)),
                            !.appended = Append(hist.appended, loc.block_id),
                            !.pos = loc.offset + Len(loc.out)]
    /\ pc' = "ex_update"
    /\ UNCHANGED <<kind, durable, v3, dbVars, cacheVars, loc, result, orig>>

\* Variant: the record gets the length of the blob before compression.
ExportUpdateRawLength ==
    /\ pc = "ex_update"
    /\ db' = update_external_trie_blob(db, loc.offset, Len(loc.buf), "LZ4", loc.block_id)
    /\ loc' = [loc EXCEPT !.block_id = loc.block_id + 1]
    /\ pc' = "ex_loop"
    /\ UNCHANGED <<kind, fileVars, marks, cacheVars, result, orig, hist>>

\* export_trie_blobs: update_external_trie_blob, then the next block id.
ExportUpdate ==
    /\ pc = "ex_update"
    /\ db' = update_external_trie_blob(db, loc.offset, Len(loc.out), "LZ4", loc.block_id)
    /\ loc' = [loc EXCEPT !.block_id = loc.block_id + 1]
    /\ pc' = "ex_loop"
    /\ UNCHANGED <<kind, fileVars, marks, cacheVars, result, orig, hist>>

\* export_trie_blobs after the pass: post_migrate_vacuum is entered and the
\* vacuum starts.
ExportVacuumBegin ==
    /\ pc = "ex_loop"
    /\ loc.block_id > loc.max_block
    /\ pc' = "ex_vacuum"
    /\ hist' = [hist EXCEPT !.vacuum = "running"]
    /\ UNCHANGED <<kind, fileVars, dbVars, cacheVars, loc, result, orig>>

\* post_migrate_vacuum returns after a vacuum that succeeded: the records of
\* the metadata store are what they were.
ExportVacuum ==
    /\ pc = "ex_vacuum"
    /\ pc' = "ex_mark"
    /\ hist' = [hist EXCEPT !.vacuum = "ok"]
    /\ UNCHANGED <<kind, fileVars, dbVars, cacheVars, loc, result, orig>>

\* Variant: the error of the vacuum is returned to the caller of the export.
ExportVacuumFailReturned ==
    /\ pc = "ex_vacuum"
    /\ Return("export", "db_error")
    /\ hist' = [hist EXCEPT !.run = [hist.run EXCEPT !.state = "failed"],
                            !.vacuum = "failed"]
    /\ UNCHANGED <<kind, fileVars, dbVars, cacheVars, orig>>

\* post_migrate_vacuum returns after a vacuum that failed (sql_vacuum, or the
\* file size queries around it): the error is logged and dropped.
ExportVacuumFail ==
    /\ pc = "ex_vacuum"
    /\ pc' = "ex_mark"
    /\ hist' = [hist EXCEPT !.vacuum = "failed"]
    /\ UNCHANGED <<kind, fileVars, dbVars, cacheVars, loc, result, orig>>

\* export_trie_blobs: set_migrated, return Ok.
ExportSetMigrated ==
    /\ pc = "ex_mark"
    /\ marks' = set_migrated(marks)
    /\ hist' = Completed("export")
    /\ Return("export", "ok")
    /\ UNCHANGED <<kind, fileVars, db, cacheVars, orig>>

\* The history when a migration procedure returns an error.
Failed == [hist EXCEPT !.run = [hist.run EXCEPT !.state = "failed"]]

\* export_trie_blobs: a call followed by `?` fails and the error is returned.
\* At entry detect_partial_migration_for_schema_v2 or count_blocks; in the
\* loop is_unconfirmed_block (an error other than NotFound), the read of the
\* inline blob, get_block_hash, the seek to the end; update_external_trie_blob.
ExportFail ==
    /\ \/ /\ pc = "idle"
          /\ hist.runs < MaxRuns
          /\ Return("export", "db_error")
          /\ UNCHANGED hist
       \/ /\ pc = "ex_loop"
          /\ loc.block_id <= loc.max_block
          /\ \E e \in {"db_error", "io_error"} : Return("export", e)
          /\ hist' = Failed
       \/ /\ pc = "ex_update"
          /\ Return("export", "db_error")
          /\ hist' = Failed
    /\ UNCHANGED <<kind, fileVars, dbVars, cacheVars, orig>>

\* export_trie_blobs: write_all fails; any proper prefix of the bytes may have
\* been written.
ExportWriteFail ==
    /\ pc = "ex_write"
    /\ \E k \in 0..(Len(loc.out) - 1) :
          /\ fd' = WriteAt(fd, loc.offset, SubSeq(loc.out, 1, k))
          /\ hist' = [Failed EXCEPT !.wr = WriteRecord("fd", loc.offset, Len(fd), k),
                                    !.pos = loc.offset + k]
    /\ Return("export", "io_error")
    /\ UNCHANGED <<kind, durable, v3, dbVars, cacheVars, orig>>

\* export_trie_blobs: set_migrated fails, and expect("FATAL: failed to mark DB
\* as migrated") terminates the process; result records the error the call
\* ended on, which no caller receives.
ExportSetMigratedFail ==
    /\ pc = "ex_mark"
    /\ pc' = "panicked"
    /\ result' = Returned("export", "db_error")
    /\ hist' = Failed
    /\ UNCHANGED <<kind, fileVars, dbVars, cacheVars, loc, orig>>

Export ==
    \/ ExportBegin
    \/ ExportBlock
    \/ ExportWrite
    \/ ExportUpdate
    \/ ExportVacuumBegin
    \/ ExportVacuum
    \/ ExportSetMigrated

\* ---------------------------------------------------- compress_trie_blobs
\* TrieFile::new_disk on "<path>.v3": the file is created when absent and
\* opened as it is otherwise.
NewDiskV3 == [v3 EXCEPT !.exists = TRUE]

\* Variant: the new file is created before the check for uncompressed blobs.
CompressBeginCreatesFirst ==
    /\ pc = "idle"
    /\ hist.runs < MaxRuns
    /\ IF detect_partial_migration_for_schema_v3(db, marks)
       THEN /\ pc' = "panicked"
            /\ loc' = [NoLoc EXCEPT !.op = "compress"]
            /\ UNCHANGED <<hist, marks, v3, result>>
       ELSE /\ v3' = NewDiskV3
            /\ hist' = [Entered("compress") EXCEPT !.created = 1]
            /\ pc' = "cp_loop"
            /\ loc' = [NoLoc EXCEPT !.op = "compress", !.max_block = count_blocks(db)]
            /\ result' = NoResult
            /\ UNCHANGED marks
    /\ UNCHANGED <<kind, fd, durable, db, cacheVars, orig>>

\* Variant: the compression goes on whatever the partial-migration check says.
CompressBeginUnchecked ==
    /\ pc = "idle"
    /\ hist.runs < MaxRuns
    /\ IF Len(get_uncompressed_external_trie_blobs(db, 1)) = 0
       THEN /\ marks' = set_migrated(marks)
            /\ hist' = [Entered("compress") EXCEPT
                          !.run = [op |-> "compress", state |-> "done",
                                   nth |-> hist.done.compress],
                          !.done = [hist.done EXCEPT !.compress = hist.done.compress + 1]]
            /\ Return("compress", "ok")
            /\ UNCHANGED v3
       ELSE /\ v3' = NewDiskV3
            /\ hist' = [Entered("compress") EXCEPT !.created = 1]
            /\ pc' = "cp_loop"
            /\ loc' = [NoLoc EXCEPT !.op = "compress", !.max_block = count_blocks(db)]
            /\ result' = NoResult
            /\ UNCHANGED marks
    /\ UNCHANGED <<kind, fd, durable, db, cacheVars, orig>>

\* Variant: with no uncompressed blob the call returns Ok without marking the
\* migration complete.
CompressBeginNoMark ==
    /\ pc = "idle"
    /\ hist.runs < MaxRuns
    /\ IF detect_partial_migration_for_schema_v3(db, marks)
       THEN /\ pc' = "panicked"
            /\ loc' = [NoLoc EXCEPT !.op = "compress"]
            /\ result' = NoResult
            /\ UNCHANGED <<hist, marks, v3>>
       ELSE IF Len(get_uncompressed_external_trie_blobs(db, 1)) = 0
       THEN /\ hist' = [Entered("compress") EXCEPT
                          !.run = [op |-> "compress", state |-> "done",
                                   nth |-> hist.done.compress],
                          !.done = [hist.done EXCEPT !.compress = hist.done.compress + 1]]
            /\ Return("compress", "ok")
            /\ UNCHANGED <<marks, v3>>
       ELSE /\ v3' = NewDiskV3
            /\ hist' = [Entered("compress") EXCEPT !.created = 1]
            /\ pc' = "cp_loop"
            /\ loc' = [NoLoc EXCEPT !.op = "compress", !.max_block = count_blocks(db)]
            /\ result' = NoResult
            /\ UNCHANGED marks
    /\ UNCHANGED <<kind, fd, durable, db, cacheVars, orig>>

\* compress_trie_blobs, entry: a partial migration is fatal; with no
\* uncompressed blob the migration is marked complete at once; otherwise the
\* new file is opened.
CompressBegin ==
    /\ pc = "idle"
    /\ hist.runs < MaxRuns
    /\ IF detect_partial_migration_for_schema_v3(db, marks)
       THEN /\ pc' = "panicked"
            /\ loc' = [NoLoc EXCEPT !.op = "compress"]
            /\ result' = NoResult
            /\ UNCHANGED <<hist, marks, v3>>
       ELSE IF Len(get_uncompressed_external_trie_blobs(db, 1)) = 0
       THEN /\ marks' = set_migrated(marks)
            /\ hist' = [Entered("compress") EXCEPT
                          !.run = [op |-> "compress", state |-> "done",
                                   nth |-> hist.done.compress],
                          !.done = [hist.done EXCEPT !.compress = hist.done.compress + 1]]
            /\ Return("compress", "ok")
            /\ UNCHANGED v3
       ELSE /\ v3' = NewDiskV3
            /\ hist' = [Entered("compress") EXCEPT !.created = 1]
            /\ pc' = "cp_loop"
            /\ loc' = [NoLoc EXCEPT !.op = "compress", !.max_block = count_blocks(db)]
            /\ result' = NoResult
            /\ UNCHANGED marks
    /\ UNCHANGED <<kind, fd, durable, db, cacheVars, orig>>

\* compress_trie_blobs, head of the loop: fetch a batch; none left marks the
\* migration complete and ends the loop.
CompressBatch ==
    /\ pc = "cp_loop"
    /\ LET results == get_uncompressed_external_trie_blobs(db, BatchLimit)
       IN  IF Len(results) = 0
           THEN /\ marks' = set_migrated(marks)
                /\ hist' = Completed("compress")
                /\ Return("compress", "ok")
           ELSE /\ loc' = [loc EXCEPT !.batch = results]
                /\ pc' = "cp_item"
                /\ UNCHANGED <<marks, hist, result>>
    /\ UNCHANGED <<kind, fileVars, db, cacheVars, orig>>

\* Variant: the old file is read from where its position was left, the start.
CompressItemNoSeek ==
    /\ pc = "cp_item"
    /\ LET extern_trie == Head(loc.batch)
           buf == ReadAt(fd, 0, extern_trie.length)
       IN  /\ hist' = [hist EXCEPT !.pos = Len(buf)]
           /\ IF Len(buf) < extern_trie.length
              THEN Return("compress", "io_error")
              ELSE /\ loc' = [loc EXCEPT !.block_id = extern_trie.block_id,
                                         !.buf = buf,
                                         !.offset = get_external_blobs_length(db),
                                         !.out = compress_blob(buf).compressed_bytes]
                   /\ pc' = "cp_write"
                   /\ UNCHANGED result
    /\ UNCHANGED <<kind, fileVars, dbVars, cacheVars, orig>>

\* compress_trie_blobs, one blob up to the write: read its raw bytes from this
\* store's file (read_exact fails on a short file), then append_trie_blob on
\* the new file: the offset from the metadata store, compress.
CompressItem ==
    /\ pc = "cp_item"
    /\ LET extern_trie == Head(loc.batch)
           buf == ReadAt(fd, extern_trie.offset, extern_trie.length)
       IN  /\ hist' = [hist EXCEPT !.pos = extern_trie.offset + Len(buf)]
           /\ IF Len(buf) < extern_trie.length
              THEN Return("compress", "io_error")
              ELSE /\ loc' = [loc EXCEPT !.block_id = extern_trie.block_id,
                                         !.buf = buf,
                                         !.offset = get_external_blobs_length(db),
                                         !.out = compress_blob(buf).compressed_bytes]
                   /\ pc' = "cp_write"
                   /\ UNCHANGED result
    /\ UNCHANGED <<kind, fileVars, dbVars, cacheVars, orig>>

\* append_trie_blob on the new file: write_all + flush.
CompressWrite ==
    /\ pc = "cp_write"
    /\ v3' = [v3 EXCEPT !.fd = WriteAt(v3.fd, loc.offset, loc.out)]
    /\ hist' = [hist EXCEPT !.wr = WriteRecord("v3", loc.offset, Len(v3.fd), Len(loc.out)),
                            !.appended = Append(hist.appended, loc.block_id)]
    /\ pc' = "cp_sync"
    /\ UNCHANGED <<kind, fd, durable, dbVars, cacheVars, loc, result, orig>>

\* append_trie_blob on the new file: sync_data.
CompressSync ==
    /\ pc = "cp_sync"
    /\ v3' = [v3 EXCEPT !.durable = SyncData(v3.fd, v3.durable)]
    /\ pc' = "cp_update"
    /\ UNCHANGED <<kind, fd, durable, dbVars, cacheVars, loc, result, orig, hist>>

\* Variant: the record gets its new location but keeps the tag None.
CompressUpdateKeepsTag ==
    /\ pc = "cp_update"
    /\ db' = update_external_trie_blob_after_compression(
                 db, loc.block_id, loc.offset, Len(loc.out), "None")
    /\ loc' = [loc EXCEPT !.batch = Tail(loc.batch)]
    /\ pc' = IF Len(loc.batch) = 1 THEN "cp_loop" ELSE "cp_item"
    /\ UNCHANGED <<kind, fileVars, marks, cacheVars, result, orig, hist>>

\* compress_trie_blobs: update_external_trie_blob_after_compression, then the
\* next blob of the batch or the next batch.
CompressUpdate ==
    /\ pc = "cp_update"
    /\ db' = update_external_trie_blob_after_compression(
                 db, loc.block_id, loc.offset, Len(loc.out), "LZ4")
    /\ loc' = [loc EXCEPT !.batch = Tail(loc.batch)]
    /\ pc' = IF Len(loc.batch) = 1 THEN "cp_loop" ELSE "cp_item"
    /\ UNCHANGED <<kind, fileVars, marks, cacheVars, result, orig, hist>>

\* compress_trie_blobs: a call followed by `?` fails and the error is returned.
\* At entry detect_partial_migration_for_schema_v3, count_blocks,
\* get_uncompressed_external_trie_blobs, set_migrated, or new_disk on the new
\* file; at the head of the loop the batch query or set_migrated; per blob the
\* seek and read_exact on the old file and get_external_blobs_length, then
\* sync_data, then update_external_trie_blob_after_compression.
CompressFail ==
    /\ \/ /\ pc = "idle"
          /\ hist.runs < MaxRuns
          /\ \E e \in {"db_error", "io_error"} : Return("compress", e)
          /\ UNCHANGED hist
       \/ /\ pc \in {"cp_loop", "cp_update"}
          /\ Return("compress", "db_error")
          /\ hist' = Failed
       \/ /\ pc = "cp_item"
          /\ \E e \in {"db_error", "io_error"} : Return("compress", e)
          /\ hist' = Failed
       \/ /\ pc = "cp_sync"
          /\ Return("compress", "io_error")
          /\ hist' = Failed
    /\ UNCHANGED <<kind, fileVars, dbVars, cacheVars, orig>>

\* append_trie_blob on the new file: write_all fails after any proper prefix.
CompressWriteFail ==
    /\ pc = "cp_write"
    /\ \E k \in 0..(Len(loc.out) - 1) :
          /\ v3' = [v3 EXCEPT !.fd = WriteAt(v3.fd, loc.offset, SubSeq(loc.out, 1, k))]
          /\ hist' = [Failed EXCEPT !.wr = WriteRecord("v3", loc.offset, Len(v3.fd), k)]
    /\ Return("compress", "io_error")
    /\ UNCHANGED <<kind, fd, durable, dbVars, cacheVars, orig>>

Compress ==
    \/ CompressBegin
    \/ CompressBatch
    \/ CompressItem
    \/ CompressWrite
    \/ CompressSync
    \/ CompressUpdate

\* ------------------------------------------------------------------ Spec
\* Block processing on a fresh store, memory-backed or disk-backed: stores
\* and reads, every I/O step and metadata call succeeding.
Store ==
    \/ \E buf \in Buffers : StoreBegin(buf)
    \/ StoreWrite
    \/ StoreSync
    \/ StorePublish

Next ==
    \/ Store
    \/ Read

Spec == Init /\ [][Next]_vars

\* One buffer of every length up to MaxLen.
SomeBuffers == {[i \in 1..n |-> (i + n) % 2] : n \in 0..MaxLen}

\* Stores on a fresh store, memory-backed or disk-backed, whose backend I/O
\* steps and metadata calls may fail.
StoreFail ==
    \/ StoreBeginFail
    \/ StoreWriteFail
    \/ StoreSyncFail
    \/ StorePublishFail

NextFault ==
    \/ \E buf \in SomeBuffers : StoreBegin(buf)
    \/ StoreWrite
    \/ StoreSync
    \/ StorePublish
    \/ StoreFail

SpecFault == Init /\ [][NextFault]_vars

\* Block processing on a fresh disk-backed store with crashes.
InitDisk == Init /\ kind = "Disk"

NextCrash ==
    \/ \E buf \in SomeBuffers : StoreBegin(buf)
    \/ StoreWrite
    \/ StoreSync
    \/ StorePublish
    \/ Read
    \/ Crash

SpecCrash == InitDisk /\ [][NextCrash]_vars

\* A v1 node: every trie blob inline in the DB, confirmed or unconfirmed, some
\* block ids denoting no block; the blob file just created.
V1Databases ==
    UNION { [ids -> {InlineRecord(u, data) : u \in BOOLEAN, data \in SomeBuffers}] :
            ids \in SUBSET BlockIds }

\* A v2 node: the blobs of blocks 0..n-1 uncompressed, one after the other,
\* in the blob file.
RECURSIVE V2Layout(_)
V2Layout(bufs) ==
    IF bufs = <<>> THEN [file |-> <<>>, db |-> EmptyMap]
    ELSE LET n == Len(bufs)
             rest == V2Layout(SubSeq(bufs, 1, n - 1))
         IN  [file |-> rest.file \o bufs[n],
              db |-> MapPut(rest.db, n - 1,
                            ExternRecord(Len(rest.file), Len(bufs[n]), "None"))]

V2Blobs == UNION {[1..n -> SomeBuffers \ {<<>>}] : n \in 0..MaxBlocks}

InitMigrate ==
    /\ kind = "Disk"
    /\ v3 = NoV3
    /\ trie_offsets = EmptyMap
    /\ decompressed_lru = <<>>
    /\ current_block_id = <<>>
    /\ current_trie = <<>>
    /\ pc = "idle"
    /\ loc = NoLoc
    /\ result = NoResult
    /\ hist = NoHist
    /\ \/ /\ db \in V1Databases
          /\ marks = [version |-> 1]
          /\ fd = <<>>
          /\ orig = [i \in DOMAIN db |-> db[i].data]
       \/ \E bufs \in V2Blobs :
             /\ db = V2Layout(bufs).db
             /\ marks = [version |-> 2]
             /\ fd = V2Layout(bufs).file
             /\ orig = [i \in DOMAIN db |-> bufs[i + 1]]
    /\ durable = fd

\* The migrations of a v1 or v2 node, run by the operator with nothing else
\* using the store, the machine crashing at any point.
NextMigrate ==
    \/ Export
    \/ Compress
    \/ Crash
    \/ Restart

SpecMigrate == InitMigrate /\ [][NextMigrate]_vars

\* The migrations of a v1 or v2 node and, between two of them, reads through
\* the store instance that ran them; no crash.
NextMigrateRead ==
    \/ Export
    \/ Compress
    \/ Read
    \/ Restart

SpecMigrateRead == InitMigrate /\ [][NextMigrateRead]_vars

\* Resuming a migration: the machine crashes at most once, and after a run that
\* a crash interrupted the operator invokes the same procedure again.  Calls
\* are synchronous: a call that is under way goes on to its end, the operator
\* invokes the procedure that is due, a process that panicked is started again.
ResumeSame(op) == hist.run.state = "crashed" => hist.run.op = op

ResumeExport == ResumeSame("export") /\ Export

ResumeCompress == ResumeSame("compress") /\ Compress

CrashOnce == ~hist.crashed /\ Crash

NextResume ==
    \/ ResumeExport
    \/ ResumeCompress
    \/ CrashOnce
    \/ Restart

SpecResume ==
    /\ InitMigrate
    /\ [][NextResume]_vars
    /\ WF_vars(ResumeExport)
    /\ WF_vars(ResumeCompress)
    /\ WF_vars(Restart)

\* The migrations of a v1 or v2 node whose backend I/O steps and metadata
\* calls may fail; no crash.
MigrateFail ==
    \/ ExportFail
    \/ ExportWriteFail
    \/ ExportSetMigratedFail
    \/ ExportVacuumFail
    \/ CompressFail
    \/ CompressWriteFail

NextMigrateFault ==
    \/ Export
    \/ Compress
    \/ MigrateFail
    \/ Restart

SpecMigrateFault == InitMigrate /\ [][NextMigrateFault]_vars

\* The export of a v1 or v2 node, run to its end by the operator, whose
\* post-migration vacuum may fail; every other call succeeds, no crash.
NextVacuumFault ==
    \/ Export
    \/ ExportVacuumFail

SpecVacuumFault ==
    /\ InitMigrate
    /\ [][NextVacuumFault]_vars
    /\ WF_vars(Export)

\* The compression of a v1 or v2 node, run to its end by the operator with
\* every call succeeding; no crash.
NextCompress == Compress

SpecCompress ==
    /\ InitMigrate
    /\ [][NextCompress]_vars
    /\ WF_vars(Compress)

\* store_trie_blob through another handle (another TrieFile::Disk on the same
\* blob file, with the same metadata store), run from its entry to its return
\* between two steps of this handle: append_trie_blob at the offset the
\* metadata store gives, write, sync, write_external_trie_blob.  The other
\* handle's caches are its own.
OtherStore ==
    \E buf \in SomeBuffers :
        LET offset == get_external_blobs_length(db)
            out == compress_blob(buf).compressed_bytes
            block_id == NextBlockId(db)
        IN  /\ kind = "Disk"
            /\ pc # "panicked"
            /\ block_id < MaxBlocks
            /\ fd' = WriteAt(fd, offset, out)
            /\ durable' = SyncData(fd', durable)
            /\ db' = write_external_trie_blob(db, offset, Len(out), "LZ4")
            /\ orig' = MapPut(orig, block_id, buf)
            /\ hist' = [hist EXCEPT !.raced = @ \/ pc \in {"ex_write", "ex_update"}]
            /\ UNCHANGED <<kind, v3, marks, cacheVars, pc, loc, result>>

\* The export of a v1 or v2 node while block processing goes on through
\* another handle on the same blob file and metadata store.
NextShared ==
    \/ Export
    \/ OtherStore

SpecShared == InitMigrate /\ [][NextShared]_vars

\* Block processing on a fresh store, memory-backed or disk-backed, and
\* compress_trie_blobs run on that same store instance.
NextStoreCompress ==
    \/ \E buf \in SomeBuffers : StoreBegin(buf)
    \/ StoreWrite
    \/ StoreSync
    \/ StorePublish
    \/ Read
    \/ Compress

SpecStoreCompress == Init /\ [][NextStoreCompress]_vars

\* Block processing on a fresh store, reads going through the store or through
\* a TrieFileNodeHashReader on it.
NextReader ==
    \/ \E buf \in SomeBuffers : StoreBegin(buf)
    \/ StoreWrite
    \/ StoreSync
    \/ StorePublish
    \/ Read
    \/ ReaderRead

SpecReader == Init /\ [][NextReader]_vars

\* Block processing on a fresh store whose metadata store may fail the queries
\* of a read, and whose blob file may fail the seek or the read of a load.
NextReadFault ==
    \/ \E buf \in SomeBuffers : StoreBegin(buf)
    \/ StoreWrite
    \/ StoreSync
    \/ StorePublish
    \/ Read
    \/ ReadFault
    \/ ReadIoFault

SpecReadFault == Init /\ [][NextReadFault]_vars

\* ------------------------------------------------------ backend selection
\* A path is the sequence of its characters; the file system is the set of
\* the paths at which a file exists.
MemoryPath == <<":", "m", "e", "m", "o", "r", "y", ":">>

BlobsSuffix == <<".", "b", "l", "o", "b", "s">>

\* format!("{}.blobs", path)
BlobPath(path) == path \o BlobsSuffix

\* TrieFile::new_disk: OpenOptions read(true) write(!readonly)
\* create(!readonly); opening a file that is absent without create fails.
new_disk(path, readonly, files) ==
    IF path \in files
    THEN [status |-> "ok", kind |-> "Disk", path |-> path, files |-> files]
    ELSE IF readonly
    THEN [status |-> "io_error", kind |-> "none", path |-> <<>>, files |-> files]
    ELSE [status |-> "ok", kind |-> "Disk", path |-> path, files |-> files \cup {path}]

\* TrieFile::new_ram
new_ram(readonly, files) ==
    [status |-> "ok", kind |-> "RAM", path |-> <<>>, files |-> files]

\* Variant: the disk backend is opened on the DB path itself.
from_db_path_bare(path, readonly, files) ==
    IF path = MemoryPath THEN new_ram(readonly, files)
    ELSE new_disk(path, readonly, files)

\* TrieFile::from_db_path
from_db_path(path, readonly, files) ==
    IF path = MemoryPath THEN new_ram(readonly, files)
    ELSE new_disk(BlobPath(path), readonly, files)

\* TrieFile::get_path: ":memory:" in RAM, the path the file was opened on
\* otherwise.
get_path(kind_, disk_path) == IF kind_ = "RAM" THEN MemoryPath ELSE disk_path

\* TrieFile::exists.  `fault` is fs::metadata failing with an error other
\* than NotFound.
exists(path, files, fault) ==
    IF path = MemoryPath THEN "false"
    ELSE IF fault THEN "io_error"
    ELSE IF BlobPath(path) \in files THEN "true"
    ELSE "false"

\* The DB paths handed in: the sentinel, a plain path, and a path that itself
\* ends in ".blobs"; the files that may exist beforehand.
DbPaths == {MemoryPath, <<"a">>, BlobPath(<<"a">>)}

FileNames == DbPaths \cup {BlobPath(p) : p \in DbPaths}

\* No store yet: a DB path, a readonly flag, a file system.
InitOpen ==
    /\ kind = "none"
    /\ fd = <<>>
    /\ durable = <<>>
    /\ v3 = NoV3
    /\ db = EmptyMap
    /\ marks = NoMarks
    /\ trie_offsets = EmptyMap
    /\ decompressed_lru = <<>>
    /\ current_block_id = <<>>
    /\ current_trie = <<>>
    /\ pc = "idle"
    /\ loc \in {[op |-> "open", path |-> path, readonly |-> readonly,
                  files |-> files, disk_path |-> <<>>] :
                    path \in DbPaths, readonly \in BOOLEAN, files \in SUBSET FileNames}
    /\ result = NoResult
    /\ orig = EmptyMap
    /\ hist = NoHist

\* TrieFile::from_db_path(path, readonly)
FromDbPath ==
    /\ pc = "idle"
    /\ loc.op = "open"
    /\ LET file == from_db_path(loc.path, loc.readonly, loc.files)
       IN  /\ kind' = file.kind
           /\ loc' = [loc EXCEPT !.files = file.files, !.disk_path = file.path]
           /\ result' = Returned("from_db_path", file.status)
           /\ pc' = IF file.status = "ok" THEN "opened" ELSE "idle"
    /\ UNCHANGED <<fileVars, dbVars, cacheVars, orig, hist>>

\* file.get_path() on the store that from_db_path returned.
GetPath ==
    /\ pc = "opened"
    /\ result' = [Returned("get_path", "ok") EXCEPT !.bytes = get_path(kind, loc.disk_path)]
    /\ UNCHANGED <<kind, fileVars, dbVars, cacheVars, pc, loc, orig, hist>>

\* TrieFile::exists(path), before or after the store is opened.
Exists ==
    /\ pc \in {"idle", "opened"}
    /\ loc.op = "open"
    /\ \E fault \in BOOLEAN :
          result' = Returned("exists", exists(loc.path, loc.files, fault))
    /\ UNCHANGED <<kind, fileVars, dbVars, cacheVars, pc, loc, orig, hist>>

NextOpen ==
    \/ FromDbPath
    \/ GetPath
    \/ Exists

SpecOpen == InitOpen /\ [][NextOpen]_vars

\* ------------------------------------------------- post_migrate_vacuum
\* The process environment holds, per variable, <<>> (unset) or <<s>> (set
\* to the OS string s); an OS string is a sequence of characters, of which
\* "0xFF" stands for a byte that is not valid Unicode.
IsUnicode(s) == \A k \in 1..Len(s) : s[k] # "0xFF"

\* env::var(key).ok(): the value when the variable is set to valid Unicode.
env_var(env, key) ==
    IF env[key] # <<>> /\ IsUnicode(env[key][1]) THEN env[key] ELSE <<>>

\* env::set_var / env::remove_var
set_var(env, key, value) == [env EXCEPT ![key] = <<value>>]
remove_var(env, key) == [env EXCEPT ![key] = <<>>]

RECURSIVE TrimSlashes(_)
TrimSlashes(p) ==
    IF p # <<>> /\ p[Len(p)] = "/" THEN TrimSlashes(SubSeq(p, 1, Len(p) - 1)) ELSE p

RECURSIVE TrimName(_)
TrimName(p) ==
    IF p # <<>> /\ p[Len(p)] # "/" THEN TrimName(SubSeq(p, 1, Len(p) - 1)) ELSE p

\* Path::parent: None for the empty path and for the root; otherwise the path
\* without its last component ("" for a single relative component).
Parent(path) ==
    LET named == TrimSlashes(path)
        dir == TrimName(named)
    IN  IF named = <<>> THEN <<>>
        ELSE IF dir = <<>> THEN << <<>> >>
        ELSE IF TrimSlashes(dir) = <<>> THEN << <<"/">> >>
        ELSE << TrimSlashes(dir) >>

\* TrieFile::inner_post_migrate_vacuum: the two fs::metadata calls may fail,
\* which is dropped; the error of sql_vacuum is returned.
inner_post_migrate_vacuum(vacuum_ok, stat_ok) ==
    IF vacuum_ok THEN "ok" ELSE "db_error"

VacuumPaths == SeqsOver({"/", "d"}, PathLen)

EnvValues == {<<>>, << <<"/", "t">> >>, << <<"0xFF">> >>}

\* A process about to vacuum the DB at db_path; entry is the environment it
\* has, kept for reference.
InitVacuum ==
    /\ kind = "none"
    /\ fd = <<>>
    /\ durable = <<>>
    /\ v3 = NoV3
    /\ db = EmptyMap
    /\ marks = NoMarks
    /\ trie_offsets = EmptyMap
    /\ decompressed_lru = <<>>
    /\ current_block_id = <<>>
    /\ current_trie = <<>>
    /\ pc = "idle"
    /\ \E db_path \in VacuumPaths, tmpdir \in EnvValues, sqlite_tmpdir \in EnvValues :
          LET env == [TMPDIR |-> tmpdir, SQLITE_TMPDIR |-> sqlite_tmpdir]
          IN  loc = [op |-> "vacuum", db_path |-> db_path, env |-> env, entry |-> env,
                     set_sqlite_tmpdir |-> FALSE, old_tmpdir_opt |-> <<>>,
                     res |-> "none"]
    /\ result = NoResult
    /\ orig = EmptyMap
    /\ hist = NoHist

\* post_migrate_vacuum up to the vacuum: with a parent directory, SQLITE_TMPDIR
\* is set to it unless env::var finds it set, the value of TMPDIR is kept and
\* TMPDIR is set to the parent.
VacuumEnter ==
    /\ pc = "idle"
    /\ loc.op = "vacuum"
    /\ LET parent == Parent(loc.db_path)
           set_sqlite_tmpdir ==
               parent # <<>> /\ env_var(loc.env, "SQLITE_TMPDIR") = <<>>
           env1 == IF set_sqlite_tmpdir
                   THEN set_var(loc.env, "SQLITE_TMPDIR", parent[1]) ELSE loc.env
       IN  loc' = [loc EXCEPT
                     !.set_sqlite_tmpdir = set_sqlite_tmpdir,
                     !.old_tmpdir_opt = IF parent # <<>> THEN env_var(loc.env, "TMPDIR")
                                        ELSE <<>>,
                     !.env = IF parent # <<>> THEN set_var(env1, "TMPDIR", parent[1])
                             ELSE loc.env]
    /\ pc' = "vac_run"
    /\ UNCHANGED <<kind, fileVars, dbVars, cacheVars, result, orig, hist>>

\* inner_post_migrate_vacuum runs and returns Ok, the file sizes reported or
\* not.
VacuumRun ==
    /\ pc = "vac_run"
    /\ \E stat_ok \in BOOLEAN :
          loc' = [loc EXCEPT !.res = inner_post_migrate_vacuum(TRUE, stat_ok)]
    /\ pc' = "vac_restore"
    /\ UNCHANGED <<kind, fileVars, dbVars, cacheVars, result, orig, hist>>

\* inner_post_migrate_vacuum returns the error of sql_vacuum.
VacuumRunFail ==
    /\ pc = "vac_run"
    /\ loc' = [loc EXCEPT !.res = inner_post_migrate_vacuum(FALSE, TRUE)]
    /\ pc' = "vac_restore"
    /\ UNCHANGED <<kind, fileVars, dbVars, cacheVars, result, orig, hist>>

\* post_migrate_vacuum after the vacuum, whose error is logged and dropped:
\* SQLITE_TMPDIR is removed if this call set it; TMPDIR is set to the value
\* kept, or removed when none was kept.
VacuumLeave ==
    /\ pc = "vac_restore"
    /\ LET env1 == IF loc.set_sqlite_tmpdir THEN remove_var(loc.env, "SQLITE_TMPDIR")
                   ELSE loc.env
       IN  loc' = [loc EXCEPT
                     !.env = IF loc.old_tmpdir_opt # <<>>
                             THEN set_var(env1, "TMPDIR", loc.old_tmpdir_opt[1])
                             ELSE remove_var(env1, "TMPDIR")]
    /\ pc' = "vac_done"
    /\ result' = Returned("post_migrate_vacuum", "ok")
    /\ UNCHANGED <<kind, fileVars, dbVars, cacheVars, orig, hist>>

NextVacuum ==
    \/ VacuumEnter
    \/ VacuumRun
    \/ VacuumRunFail
    \/ VacuumLeave

SpecVacuum == InitVacuum /\ [][NextVacuum]_vars

\* ------------------------------------------------------------ the codec
\* compress_blob and the decompression of load_trie_blob as functions of the
\* bytes alone: the input is any byte sequence of length at most CodecLen.
CodecInputs == SeqsUpTo(CodecLen)

InitCodec ==
    /\ kind = "Disk"
    /\ fd = <<>>
    /\ durable = <<>>
    /\ v3 = NoV3
    /\ db = EmptyMap
    /\ marks = NoMarks
    /\ trie_offsets = EmptyMap
    /\ decompressed_lru = <<>>
    /\ current_block_id = <<>>
    /\ current_trie = <<>>
    /\ pc = "idle"
    /\ loc \in {[NoLoc EXCEPT !.op = "codec", !.buf = x] : x \in CodecInputs}
    /\ result = NoResult
    /\ orig = EmptyMap
    /\ hist = NoHist

\* compress_blob(buf): the framed bytes.
CodecCompress ==
    /\ pc = "idle"
    /\ loc.op = "codec"
    /\ loc' = [loc EXCEPT !.out = compress_blob(loc.buf).compressed_bytes]
    /\ pc' = "framed"
    /\ UNCHANGED <<kind, fileVars, dbVars, cacheVars, result, orig, hist>>

\* lz4_decompress_size_prepended(..).unwrap() on the framed bytes.
CodecDecompress ==
    /\ pc = "framed"
    /\ LET decompressed == lz4_decompress_size_prepended(loc.out)
       IN  /\ result' = [Returned("decompress",
                                  IF decompressed.ok THEN "ok" ELSE "panic")
                           EXCEPT !.bytes = decompressed.bytes]
           /\ pc' = IF decompressed.ok THEN "decompressed" ELSE "panicked"
    /\ UNCHANGED <<kind, fileVars, dbVars, cacheVars, loc, orig, hist>>

NextCodec ==
    \/ CodecCompress
    \/ CodecDecompress

SpecCodec == InitCodec /\ [][NextCodec]_vars

\* ======================================================== properties
\* The bytes a record's location holds in container f.
StoredAt(f, i) == ReadAt(f, db[i].offset, db[i].length)

\* The last call was a read of a stored block at an offset whose ReadLen bytes
\* lie inside the block's buffer, and the metadata store answered.
ReadInside ==
    /\ result.op = "read"
    /\ result.status # "db_error"
    /\ result.id \in DOMAIN orig
    /\ result.ptr + ReadLen <= Len(orig[result.id])

\* ... and it returned the bytes of that buffer starting at the offset.
ReadExact ==
    /\ result.status = "ok"
    /\ result.bytes = SubSeq(orig[result.id], result.ptr + 1, result.ptr + ReadLen)

\* C1 -- store/read round trip: a read (get_node_hash_bytes, read_node_type,
\* read_node_type_nohash) of a stored block i at an offset p inside its buffer
\* b_i succeeds and returns the bytes of b_i starting at p, on the memory
\* backend and on the disk backend.
StoreReadRoundTrip == ReadInside => ReadExact

\* C1 witness: on a disk store holding three blocks, block 0 had left the LRU,
\* was read back from the file and its second byte was returned.
RoundTripWitness ==
    /\ kind = "Disk"
    /\ DOMAIN db = 0..2
    /\ ReadInside /\ ReadExact
    /\ result.id = 0 /\ result.ptr = 1
    /\ 0 \in DOMAIN trie_offsets

\* C5 -- blob isolation: the byte ranges recorded for two distinct block ids
\* are disjoint, and each recorded range holds the bytes appended for its
\* block, whatever was stored later.
BlobIsolation ==
    /\ \A i, j \in DOMAIN db :
          i # j => \/ db[i].offset + db[i].length <= db[j].offset
                   \/ db[j].offset + db[j].length <= db[i].offset
    /\ \A i \in DOMAIN db : StoredAt(fd, i) = AppendBytes(orig[i])

\* C5 witness: three non-empty blobs have been stored, the middle one differing
\* from its neighbours.
BlobIsolationWitness ==
    /\ pc = "idle"
    /\ DOMAIN db = 0..2
    /\ \A i \in DOMAIN db : db[i].length > 0
    /\ orig[1] # orig[0] /\ orig[1] # orig[2]

\* C2 -- durability ordering on the store path: every location present in the
\* metadata store of a disk-backed store refers to bytes that are fully
\* written and synced, in every state, a crash possible between any two steps.
PublishedIsDurable ==
    \A i \in DOMAIN db :
        /\ StoredAt(durable, i) = compress_blob(orig[i]).compressed_bytes
        /\ StoredAt(fd, i) = StoredAt(durable, i)

\* C2 witness: after a crash that left unpublished bytes in the file, two
\* blocks are published.
DurableWitness ==
    /\ hist.crashed
    /\ Cardinality(DOMAIN db) = 2
    /\ Len(durable) > get_external_blobs_length(db)

\* C4 (as claimed) -- append-only: every write to a backend starts at the
\* current end of its written content, so no written byte is written again.
AppendOnly ==
    \A k \in 1..Len(hist.wr) : hist.wr[k].offset = hist.wr[k].before

\* C6 -- a crash before publication is safe: once the machine has crashed,
\* every published block still decompresses to its original bytes, no record
\* reaches into the bytes orphaned by the crash, and reads, of blocks stored
\* later too, return the bytes stored.
CrashBeforePublishSafe ==
    hist.crashed =>
        /\ \A i \in DOMAIN db :
              lz4_decompress_size_prepended(StoredAt(fd, i)) =
                  [ok |-> TRUE, bytes |-> orig[i]]
        /\ hist.orphan # <<>> =>
              \A i \in DOMAIN db : db[i].offset + db[i].length <= hist.orphan[1]
        /\ ReadInside => ReadExact

\* C6 witness: a crash orphaned bytes, a later store wrote over them, and its
\* block was then read back from the file while orphaned bytes remain behind it.
CrashSafeWitness ==
    /\ hist.crashed
    /\ Len(fd) > get_external_blobs_length(db)
    /\ ReadInside /\ ReadExact
    /\ result.id = NextBlockId(db) - 1
    /\ result.id \in DOMAIN trie_offsets

\* A record that refers to the external file refers to bytes of it that are
\* written and synced.
Synced(i) ==
    /\ db[i].offset + db[i].length <= Len(durable)
    /\ StoredAt(durable, i) = StoredAt(fd, i)

\* C3 (as claimed) -- durability ordering during export: while and after
\* export_trie_blobs runs, a crash included, every record it has moved to the
\* external file refers to bytes that are written and synced.
ExportedIsDurable ==
    hist.run.op = "export" =>
        \A i \in DOMAIN db : IsExternal(db[i]) => Synced(i)

\* The last migration run is a run of `op` entered after a run of `op` had
\* completed.
SecondRun(op) == hist.run.op = op /\ hist.run.nth >= 1

\* C7 (as claimed) -- export idempotence: an export_trie_blobs entered after
\* one had completed appends nothing and leaves every record as it found it.
ExportIdempotent ==
    SecondRun("export") => hist.appended = <<>> /\ db = hist.dbEntry

\* C8 -- compress idempotence: a compress_trie_blobs entered after one had
\* completed appends nothing, creates or opens no file, and leaves every record
\* as it found it.
CompressIdempotent ==
    SecondRun("compress") =>
        /\ hist.appended = <<>>
        /\ hist.created = 0
        /\ db = hist.dbEntry
        /\ hist.run.state = "done"

\* C8 witness: the second compress has returned, the first having compressed
\* blobs into the new file.
CompressIdempotentWitness ==
    /\ SecondRun("compress")
    /\ hist.run.state = "done"
    /\ pc = "idle"
    /\ Len(v3.fd) > 0
    /\ \A i \in DOMAIN db : db[i].compression = "LZ4"

\* C9 -- migration fatal-abort: a migration procedure entered while the
\* metadata store reports a partial migration of its phase panics at once,
\* with no byte written, no file created and no record or marker changed.
FatalAbort ==
    [][ /\ (pc = "idle" /\ loc'.op = "export"
               /\ detect_partial_migration_for_schema_v2(db, marks))
            => (pc' = "panicked" /\ UNCHANGED <<fileVars, dbVars>>)
        /\ (pc = "idle" /\ loc'.op = "compress"
               /\ detect_partial_migration_for_schema_v3(db, marks))
            => (pc' = "panicked" /\ UNCHANGED <<fileVars, dbVars>>) ]_vars

\* C9 witness: an export interrupted by a crash was entered again and panicked.
FatalAbortWitness ==
    /\ pc = "panicked"
    /\ loc.op = "export"
    /\ hist.crashed
    /\ detect_partial_migration_for_schema_v2(db, marks)

\* The confirmed blocks of a metadata store.
Confirmed(d) == {i \in DOMAIN d : ~d[i].unconfirmed}

\* C10 -- export skips what is not a confirmed block: during a run of
\* export_trie_blobs no record appears for a block id that was none, the record
\* of an unconfirmed block stays as it was, a blob is appended only for a
\* confirmed block and at most once; a run that has returned has appended one
\* blob for each confirmed block, n blobs for n confirmed blocks.
ExportSkips ==
    hist.run.op = "export" =>
        /\ DOMAIN db = DOMAIN hist.dbEntry
        /\ \A i \in DOMAIN db \ Confirmed(hist.dbEntry) : db[i] = hist.dbEntry[i]
        /\ \A k \in 1..Len(hist.appended) : hist.appended[k] \in Confirmed(hist.dbEntry)
        /\ \A k, l \in 1..Len(hist.appended) :
              k # l => hist.appended[k] # hist.appended[l]
        /\ hist.run.state = "done" =>
              Len(hist.appended) = Cardinality(Confirmed(hist.dbEntry))

\* C10 witness: an export of a DB whose block 0 is unconfirmed, whose id 1 is
\* no block and whose block 2 is confirmed has returned, having appended one
\* blob, block 2's.
ExportSkipsWitness ==
    /\ hist.run = [op |-> "export", state |-> "done", nth |-> 0]
    /\ DOMAIN db = {0, 2}
    /\ db[0].unconfirmed /\ ~db[2].unconfirmed
    /\ hist.appended = <<2>>
    /\ db[0] = hist.dbEntry[0]

\* The trie bytes that the LZ4-framed bytes at location (offset, length) of
\* container f decompress to.
Inflated(f, offset, length) ==
    lz4_decompress_size_prepended(ReadAt(f, offset, length))

Is(bytes) == [ok |-> TRUE, bytes |-> bytes]

\* C11 -- export preserves content: when export_trie_blobs returns Ok, every
\* confirmed block of the metadata store has a location in the external file
\* with the LZ4 tag, and the bytes at that location decompress to the bytes the
\* block had inline when the export was entered.
ExportPreserves ==
    result = Returned("export", "ok") =>
        \A i \in Confirmed(hist.dbEntry) :
            /\ db[i].compression = "LZ4"
            /\ db[i].length > 0
            /\ Inflated(fd, db[i].offset, db[i].length) = Is(hist.dbEntry[i].data)

\* C11 witness: an export has returned that moved two confirmed blocks with
\* different non-empty inline blobs, leaving an unconfirmed block inline.
ExportPreservesWitness ==
    /\ result = Returned("export", "ok")
    /\ Cardinality(Confirmed(hist.dbEntry)) = 2
    /\ \A i, j \in Confirmed(hist.dbEntry) :
          /\ hist.dbEntry[i].data # <<>>
          /\ i # j => hist.dbEntry[i].data # hist.dbEntry[j].data
    /\ \E i \in DOMAIN db : db[i].unconfirmed /\ db[i].data # <<>>

\* C12 -- compress preserves content: when compress_trie_blobs returns Ok, no
\* external blob of the metadata store has the tag None, and for every blob that
\* was uncompressed at entry the bytes at its new location in the new file
\* decompress to the raw bytes that were at its old location in the old file.
CompressPreserves ==
    result = Returned("compress", "ok") =>
        /\ UncompressedIds(db) = {}
        /\ \A i \in UncompressedIds(hist.dbEntry) :
              /\ db[i].compression = "LZ4"
              /\ Inflated(v3.fd, db[i].offset, db[i].length) =
                     Is(ReadAt(fd, hist.dbEntry[i].offset, hist.dbEntry[i].length))

\* C12 witness: a compress has returned that moved three blobs, in two batches,
\* the second blob differing from the first.
CompressPreservesWitness ==
    /\ result = Returned("compress", "ok")
    /\ Cardinality(UncompressedIds(hist.dbEntry)) = 3
    /\ Len(hist.appended) = 3
    /\ StoredAt(fd, 0) # ReadAt(fd, hist.dbEntry[1].offset, hist.dbEntry[1].length)

\* The block ids of a sequence of block ids.
Ids(seq) == {seq[k] : k \in 1..Len(seq)}

\* C13 (as claimed) -- compress replaces the store's file: once
\* compress_trie_blobs has returned Ok, the location of every block it moved
\* lies in the file the store reads from and holds there the framed bytes of the
\* block's trie, and a read of such a block at an offset inside its trie returns
\* the trie's bytes.
CompressReplacesFile ==
    (hist.run.op = "compress" /\ hist.run.state = "done") =>
        /\ \A i \in Ids(hist.appended) :
              /\ db[i].offset + db[i].length <= Len(fd)
              /\ Inflated(fd, db[i].offset, db[i].length) = Is(orig[i])
        /\ (ReadInside /\ result.id \in Ids(hist.appended)) => ReadExact

\* The bytes of block i's trie as its record says to find them in container f:
\* verbatim under the tag None, decompressed under the tag LZ4.
Decoded(f, i) ==
    IF db[i].compression = "None" THEN Is(StoredAt(f, i))
    ELSE Inflated(f, db[i].offset, db[i].length)

\* The export of a v1 node, or the compression of a v2 node, is under way or
\* was interrupted by a crash.
Migrating ==
    /\ hist.run.state \in {"running", "crashed"}
    /\ \/ hist.run.op = "export" /\ marks.version = 1
       \/ hist.run.op = "compress" /\ marks.version = 2

\* C14 (as claimed) -- no half-migrated state: at every point of a migration,
\* the state left by a crash included, every block whose record refers to the
\* external file is found there by the store, with the bytes of its trie.
NoHalfMigratedState ==
    Migrating =>
        \A i \in DOMAIN db :
            IsExternal(db[i]) =>
                /\ db[i].offset + db[i].length <= Len(fd)
                /\ Decoded(fd, i) = Is(orig[i])

\* The records that the last migration run has moved, and those it was to move.
Moved == {i \in DOMAIN db : db[i] # hist.dbEntry[i]}

ToMove ==
    IF hist.run.op = "export" THEN Confirmed(hist.dbEntry)
    ELSE UncompressedIds(hist.dbEntry)

\* The last migration run was interrupted by a crash, and another invocation
\* is possible.
Interrupted == hist.run.state = "crashed" /\ hist.runs < MaxRuns

\* The metadata store reports the interrupted migration as partial.
PartialDetected ==
    /\ hist.run.state = "crashed"
    /\ \/ hist.run.op = "export" /\ detect_partial_migration_for_schema_v2(db, marks)
       \/ hist.run.op = "compress" /\ detect_partial_migration_for_schema_v3(db, marks)

\* C15 (as claimed) -- migration is resumable: a migration procedure that a
\* crash interrupted after it had migrated some but not all blocks, invoked
\* again, eventually completes, the migration marked complete.
Resumable ==
    (Interrupted /\ Moved # {} /\ ToMove \ Moved # {})
        ~> (hist.run.state = "done" /\ marks.version = 3)

\* C15 (amended) -- a migration is resumable only when the metadata store does
\* not report the interrupted run as a partial migration: then the procedure,
\* invoked again, eventually completes and marks the migration complete.  When
\* it does report one, every later invocation ends the process at entry: no
\* run is entered, no file, record or marker changes, ever.
ResumeOrAbort ==
    /\ [][PartialDetected =>
             /\ pc' \in {"idle", "panicked"}
             /\ hist'.run = hist.run
             /\ UNCHANGED <<fileVars, dbVars>>]_vars
    /\ (Interrupted /\ ~PartialDetected)
           ~> (hist.run.state = "done" /\ marks.version = 3)

\* C15 witness: a compress that a crash had interrupted before its first
\* record update was invoked again and has compressed two blobs and returned.
ResumeWitness ==
    /\ hist.crashed
    /\ hist.runs = 2
    /\ hist.done = [export |-> 0, compress |-> 1]
    /\ hist.run = [op |-> "compress", state |-> "done", nth |-> 0]
    /\ Len(hist.appended) >= 2
    /\ marks.version = 3

\* The block ids resident in an LRU.
LruIds(lru) == {lru[k].id : k \in 1..Len(lru)}

\* C16 -- LRU capacity: in every state of a disk-backed store, after any
\* sequence of stores and reads, the decompressed-content LRU holds at most its
\* capacity of entries (255 in the code, LruCap here), one per block id.
LruBounded ==
    /\ Len(decompressed_lru) <= LruCap
    /\ Cardinality(LruIds(decompressed_lru)) = Len(decompressed_lru)

\* C16 witness: the LRU is full, more blocks having been stored than it holds,
\* and a block that had left it has been loaded again.
LruBoundedWitness ==
    /\ kind = "Disk"
    /\ Len(decompressed_lru) = LruCap
    /\ Cardinality(DOMAIN db) > LruCap
    /\ \E i \in DOMAIN trie_offsets : LruHas(decompressed_lru, i)

\* The resident block id whose last use (put, or get that hit) is the oldest.
LeastRecent ==
    LET k == SetMax({j \in 1..Len(hist.used) :
                        hist.used[j] \in LruIds(decompressed_lru)})
    IN  hist.used[k]

\* C17 -- LRU eviction: a step (store_trie_blob, or a load by a read) that
\* inserts a block id not resident in a full LRU evicts exactly one entry, the
\* least recently used one, and keeps the others as they were; and a read of a
\* block that is neither current nor resident, such as an evicted one, fetches
\* its location and takes its bytes from the backend.
LruEvictsLeastRecent ==
    [][ /\ ( /\ decompressed_lru' # decompressed_lru
             /\ Len(decompressed_lru) = LruCap
             /\ ~LruHas(decompressed_lru, decompressed_lru'[1].id) )
            => /\ LruIds(decompressed_lru') =
                     (LruIds(decompressed_lru) \ {LeastRecent})
                        \cup {decompressed_lru'[1].id}
               /\ Len(decompressed_lru') = LruCap
               /\ \A i \in LruIds(decompressed_lru) \ {LeastRecent} :
                     LruPeek(decompressed_lru', i) = LruPeek(decompressed_lru, i)
        /\ ( /\ kind = "Disk" /\ pc = "idle"
             /\ result'.op = "read" /\ result'.status = "ok"
             /\ current_block_id # <<result'.id>>
             /\ ~LruHas(decompressed_lru, result'.id) )
            => /\ result'.id \in DOMAIN trie_offsets'
               /\ Is(LruPeek(decompressed_lru', result'.id)) =
                     Inflated(fd, db[result'.id].offset, db[result'.id].length)
      ]_vars

\* C17 witness: more blocks than the LRU holds have been used, the least
\* recently used of them is no longer resident, and a block that had been
\* evicted before has just been read back from the backend.
LruEvictionWitness ==
    /\ kind = "Disk"
    /\ Len(hist.used) = LruCap + 1
    /\ Len(decompressed_lru) = LruCap
    /\ ~LruHas(decompressed_lru, hist.used[LruCap + 1])
    /\ result.op = "read" /\ result.status = "ok"
    /\ result.id = hist.used[1]
    /\ result.id \in DOMAIN trie_offsets

\* C18 -- store_trie_blob error outcomes: while a store is under way, and when
\* it returns an error, the metadata store, the LRU and the other caches are as
\* they were when it was called: no block id is recorded, no entry seeded.  A
\* failure of the write or of the sync returns an I/O error; a failure of the
\* registration returns the metadata error; a failure before the write returns
\* the error of the step that failed (offset query, or seek).
StoreErrorOutcomes ==
    [][ /\ ( \/ loc'.op = "store"
             \/ result'.op = "store" /\ result'.status # "ok" )
            => UNCHANGED <<db, decompressed_lru, current_block_id, current_trie,
                           trie_offsets>>
        /\ (pc \in {"st_write", "st_sync"} /\ pc' = "idle")
            => result' = Returned("store", "io_error")
        /\ (pc = "st_publish" /\ pc' = "idle" /\ db' = db)
            => result' = Returned("store", "db_error")
        /\ (pc = "idle" /\ result'.op = "store")
            => result'.status \in {"io_error", "db_error"}
      ]_vars

\* C18 witness: on a disk store that holds a block, a store whose registration
\* failed has returned the metadata error, its bytes written behind the last
\* recorded blob, the LRU holding the recorded block alone.
StoreErrorWitness ==
    /\ kind = "Disk"
    /\ result = Returned("store", "db_error")
    /\ DOMAIN db = {0}
    /\ Len(fd) > get_external_blobs_length(db)
    /\ LruIds(decompressed_lru) = {0}

\* C19 -- offset monotonicity: when an append_trie_blob returns, on either
\* backend, its offset is not below the offset the append before it returned,
\* whether or not that one was recorded in the metadata store; the bytes
\* written by the call start at the returned offset, are storage_size many,
\* and are the bytes the backend holds there.
OffsetMonotone ==
    [][ (pc # "st_publish" /\ pc' = "st_publish")
            => /\ hist'.ret # <<>>
               /\ hist.ret # <<>> => hist'.ret[1].offset >= hist.ret[1].offset
               /\ hist'.wr[1].file = "fd"
               /\ hist'.wr[1].offset = hist'.ret[1].offset
               /\ hist'.wr[1].n = hist'.ret[1].storage_size
               /\ ReadAt(fd', hist'.ret[1].offset, hist'.ret[1].storage_size) =
                     AppendBytes(loc.buf)
      ]_vars

\* C19 witness: on a store that holds one non-empty blob, an append has
\* returned the offset behind that blob, the same offset as an append before it
\* that was longer and was never recorded.
OffsetMonotoneWitness ==
    /\ pc = "st_publish"
    /\ DOMAIN db = {0}
    /\ db[0].length > 0
    /\ hist.ret = AppendResult(db[0].length, Len(loc.out))
    /\ Len(fd) > hist.ret[1].offset + hist.ret[1].storage_size

\* The sum of the lengths recorded for the block ids below n.
RECURSIVE SumLengths(_, _)
SumLengths(d, n) ==
    IF n = 0 THEN 0 ELSE SumLengths(d, n - 1) + d[n - 1].length

\* C20 -- file length: on a fresh disk-backed store, after any sequence of
\* successful stores, the length of the blob file is the sum of the storage
\* sizes the appends returned (the compressed sizes of the blobs, which the
\* records hold), and is the metadata store's next append offset.
FileLengthMatches ==
    (kind = "Disk" /\ pc = "idle") =>
        /\ \A i \in DOMAIN db :
              db[i].length = compress_blob(orig[i]).compressed_blob_size
        /\ Len(fd) = SumLengths(db, NextBlockId(db))
        /\ Len(fd) = get_external_blobs_length(db)

\* C20 witness: three blobs of three different lengths have been stored on a
\* disk store.
FileLengthWitness ==
    /\ kind = "Disk" /\ pc = "idle"
    /\ DOMAIN db = 0..2
    /\ Cardinality({db[i].length : i \in DOMAIN db}) = 3

\* C21 -- compression round trip: for every byte sequence x, the empty one
\* included, the bytes compress_blob(x) produces begin with Len(x) as a 4-byte
\* little-endian integer, and decompressing them succeeds and yields x.
CompressRoundTrip ==
    (loc.op = "codec" /\ pc # "idle") =>
        /\ Len(loc.out) >= 4
        /\ SubSeq(loc.out, 1, 4) = LE32(Len(loc.buf))
        /\ pc # "framed" =>
              /\ pc = "decompressed"
              /\ result.status = "ok"
              /\ result.bytes = loc.buf

\* The empty sequence has gone through the codec and come back empty.
CompressRoundTripWitness ==
    /\ pc = "decompressed"
    /\ loc.buf = <<>>
    /\ loc.out = <<0, 0, 0, 0, 0>>
    /\ result.bytes = <<>>

\* C22 (as claimed) -- reads honour the recorded compression tag: a read on a
\* disk store of a block whose record is tagged None uses the stored bytes
\* verbatim as the trie bytes, and one tagged LZ4 uses their decompression;
\* so a read at an offset inside those trie bytes returns them from there.
ReadsHonourTag ==
    (/\ kind = "Disk"
     /\ result.op = "read"
     /\ result.status # "db_error"
     /\ result.id \in DOMAIN db
     /\ IsExternal(db[result.id])
     /\ db[result.id].offset + db[result.id].length <= Len(fd)
     /\ Decoded(fd, result.id).ok
     /\ result.ptr + ReadLen <= Len(Decoded(fd, result.id).bytes))
    => /\ result.status = "ok"
       /\ result.bytes = SubSeq(Decoded(fd, result.id).bytes,
                                result.ptr + 1, result.ptr + ReadLen)

\* A memory-backed store on its own fresh metadata store that has been given
\* the first n stores of this behaviour: store_trie_blob on the RAM variant,
\* applied to the buffers of blocks 0..n-1 in order.
RECURSIVE RamTwin(_)
RamTwin(n) ==
    IF n = 0 THEN [fd |-> <<>>, db |-> EmptyMap, id |-> 0]
    ELSE LET t == RamTwin(n - 1)
             offset == get_external_blobs_length(t.db)
         IN  [fd |-> WriteAt(t.fd, offset, orig[n - 1]),
              db |-> write_external_trie_blob(t.db, offset, Len(orig[n - 1]), "None"),
              id |-> NextBlockId(t.db)]

Stored == Cardinality(DOMAIN orig)

\* What a read of (block_id, ptr) returns on that store: get_trie_offset, seek
\* to trie.offset + ptr, the codec on the buffer.
RamTwinRead(block_id, ptr) ==
    LET t == RamTwin(Stored)
    IN  IF block_id \notin DOMAIN t.db THEN [status |-> "not_found", bytes |-> <<>>]
        ELSE LET c == Codec(t.fd, t.db[block_id].offset + ptr)
             IN  [status |-> c.status, bytes |-> c.bytes]

\* The last call returned what the same call returns on the memory-backed
\* store that was given the same operations.
SameAsRam ==
    /\ result.op = "read" =>
          /\ result.status = RamTwinRead(result.id, result.ptr).status
          /\ result.bytes = RamTwinRead(result.id, result.ptr).bytes
    /\ (result.op = "store" /\ result.status = "ok") =>
          result.id = RamTwin(Stored).id

\* C23 (as claimed) -- the backends are interchangeable: the same stores and
\* reads on a memory-backed and on a disk-backed store yield the same
\* BlockIds and, for every read, the same outcome and the same bytes.
BackendsInterchangeable == SameAsRam

\* C23 (amended) -- the backends yield the same BlockIds, the same bytes for
\* every read whose bytes lie inside the block's trie, and not-found alike for
\* a block id never stored; a read that runs past the end of the block's trie
\* is an I/O error on the disk backend.
BackendsAgreeInside ==
    /\ (result.op = "read" => ReadInside \/ result.id \notin DOMAIN orig) => SameAsRam
    /\ (/\ kind = "Disk"
        /\ result.op = "read"
        /\ result.id \in DOMAIN orig
        /\ ~ReadInside) => result.status = "io_error"

\* A disk store returned, for a block that is not the first, the bytes the
\* memory-backed store finds at the block's offset in its buffer.
BackendsAgreeWitness ==
    /\ kind = "Disk"
    /\ ReadInside
    /\ result.id > 0
    /\ RamTwin(Stored).db[result.id].offset > 0
    /\ result.ptr > 0
    /\ result.status = "ok"
    /\ result.bytes = RamTwinRead(result.id, result.ptr).bytes

\* What get_node_hash_bytes(block_id, ptr) returns when called in this state.
HashBytes(block_id, ptr) ==
    IF kind = "RAM"
    THEN LET trie == GetTrieOffset(trie_offsets, block_id, FALSE)
             c == Codec(fd, trie.at.offset + ptr)
         IN  IF trie.status = "ok" THEN [status |-> c.status, bytes |-> c.bytes]
             ELSE [status |-> trie.status, bytes |-> <<>>]
    ELSE LET l == LoadTrieBlob(block_id, FALSE)
             c == Codec(l.ctrie[1], ptr)
         IN  IF l.status = "ok" THEN [status |-> c.status, bytes |-> c.bytes]
             ELSE [status |-> l.status, bytes |-> <<>>]

\* C24 (as claimed) -- the reader adapter matches the store:
\* TrieFileNodeHashReader::new(db, file, i).read_node_hash_bytes(p) writes
\* exactly the hash bytes get_node_hash_bytes(i, p) returns, whichever trie
\* was read last and wherever the backend's position was left.
ReaderMatchesStore ==
    (result.op = "reader" /\ HashBytes(result.id, result.ptr).status = "ok") =>
        /\ result.status = "ok"
        /\ result.bytes = HashBytes(result.id, result.ptr).bytes

\* C25 (as claimed) -- I/O and metadata errors are returned, never escalated:
\* a call of export_trie_blobs or compress_trie_blobs that ends on the failure
\* of a backend I/O step or of a metadata call (set_migrated included) has
\* returned that error to its caller, and the process has not terminated.
ErrorsAreReturned ==
    result.status \in {"io_error", "db_error"} => pc = "idle"

\* The location load_trie_blob resolves for block i: the offset cache's
\* entry, or the metadata store's record.
LocationOf(i) ==
    IF i \in DOMAIN trie_offsets THEN trie_offsets[i]
    ELSE [offset |-> db[i].offset, length |-> db[i].length]

\* A load of block i in this state reads the backend, and what it reads does
\* not decompress.
CorruptLoad(i) ==
    /\ kind = "Disk"
    /\ current_block_id # <<i>>
    /\ ~LruHas(decompressed_lru, i)
    /\ i \in DOMAIN trie_offsets \cup DOMAIN db
    /\ ~Inflated(fd, LocationOf(i).offset, LocationOf(i).length).ok

\* C26 -- a corrupt payload is fatal and leaves no trace in the caches: a read
\* whose load_trie_blob fails to decompress what it read terminates the
\* process, with the LRU and the current-trie slot as they were, neither
\* referring to the corrupt block; no read terminates the process otherwise.
CorruptIsFatal ==
    [][(pc = "idle" /\ result'.op = "read") =>
          /\ CorruptLoad(result'.id) =>
                /\ pc' = "panicked"
                /\ UNCHANGED <<decompressed_lru, current_block_id, current_trie>>
                /\ ~LruHas(decompressed_lru', result'.id)
                /\ current_block_id' # <<result'.id>>
          /\ pc' = "panicked" => CorruptLoad(result'.id)]_vars

\* The process terminated on a block that does not decompress while another
\* block was the current one and the LRU was not empty.
CorruptIsFatalWitness ==
    /\ pc = "panicked"
    /\ result.op = "read"
    /\ result.status = "panic"
    /\ decompressed_lru # <<>>
    /\ current_block_id # <<>>
    /\ current_block_id # <<result.id>>
    /\ ~LruHas(decompressed_lru, result.id)

\* get_path() and exists(path) answer as claimed: ":memory:" for the memory
\* backend and path + ".blobs" for the disk backend; exists(":memory:") is
\* false, and exists(p), when the file system answers, is true exactly when
\* the file p + ".blobs" exists.
PathAndExists ==
    /\ result.op = "get_path" =>
          result.bytes = IF loc.path = MemoryPath THEN MemoryPath
                         ELSE loc.path \o BlobsSuffix
    /\ (result.op = "exists" /\ result.status # "io_error") =>
          result.status = IF loc.path # MemoryPath
                             /\ (loc.path \o BlobsSuffix) \in loc.files
                          THEN "true" ELSE "false"
    /\ (result.op = "exists" /\ result.status = "io_error") => loc.path # MemoryPath

\* from_db_path returned the backend the path selects.
Selected ==
    /\ result.status = "ok"
    /\ kind = IF loc.path = MemoryPath THEN "RAM" ELSE "Disk"
    /\ kind = "Disk" =>
          /\ loc.disk_path = loc.path \o BlobsSuffix
          /\ loc.disk_path \in loc.files

\* C27 (as claimed) -- backend selection: from_db_path(":memory:", _) yields
\* the memory backend and from_db_path(p, _) for any other p a disk backend on
\* the file p + ".blobs"; get_path() and exists(path) answer accordingly.
BackendSelection ==
    /\ result.op = "from_db_path" => Selected
    /\ PathAndExists

\* C27 (amended) -- as claimed, except that from_db_path(p, true) on a path p
\* whose file p + ".blobs" is absent returns an I/O error and no backend,
\* creating nothing; with readonly false the file is created.
BackendSelectionOpen ==
    /\ result.op = "from_db_path" =>
          IF loc.path # MemoryPath /\ loc.readonly
             /\ (loc.path \o BlobsSuffix) \notin loc.files
          THEN result.status = "io_error" /\ kind = "none" /\ pc = "idle"
          ELSE Selected
    /\ PathAndExists

\* A disk backend was opened read-write on "a.blobs", which is not "a", and
\* reports that path.
BackendSelectionWitness ==
    /\ kind = "Disk"
    /\ result.op = "get_path"
    /\ loc.path = <<"a">>
    /\ ~loc.readonly
    /\ result.bytes = <<"a", ".", "b", "l", "o", "b", "s">>
    /\ result.bytes \in loc.files
    /\ <<"a">> \notin loc.files

\* C28 -- current-slot consistency: on a disk store current_block_id is set
\* exactly when current_trie is; when current_block_id is i, current_trie
\* holds the decompressed trie bytes of block i; and after a read whose
\* load_trie_blob(i) returned Ok, current_block_id is i.
CurrentSlotConsistent ==
    kind = "Disk" =>
        /\ current_block_id = <<>> <=> current_trie = <<>>
        /\ current_block_id # <<>> =>
              LET i == current_block_id[1]
              IN  /\ i \in DOMAIN db
                  /\ Inflated(fd, db[i].offset, db[i].length) = Is(current_trie[1])
        /\ (result.op = "read" /\ result.status \in {"ok", "io_error"}) =>
              current_block_id = <<result.id>>

\* After a crash, block 1 was read back from the file and is the current
\* trie.
CurrentSlotWitness ==
    /\ hist.crashed
    /\ result.op = "read"
    /\ result.status = "ok"
    /\ result.id = 1
    /\ current_block_id = <<1>>
    /\ current_trie = <<orig[1]>>
    /\ orig[1] # <<>>
    /\ ~LruHas(decompressed_lru, 0)

\* C29 -- decompressed-cache coherence: on a disk store that stores and reads
\* (no migration), the bytes cached for every BlockId resident in the LRU are
\* the decompression of the bytes the backend holds at that BlockId's metadata
\* location; so is the entry store_trie_blob seeds from the caller's buffer.
LruCoherent ==
    kind = "Disk" =>
        \A k \in 1..Len(decompressed_lru) :
            LET e == decompressed_lru[k]
            IN  /\ e.id \in DOMAIN db
                /\ Inflated(fd, db[e.id].offset, db[e.id].length) = Is(e.bytes)

\* With three blocks stored, block 0 has just been read back from the file
\* (the file position is at the end of its frame) into an LRU that still
\* holds the entry seeded for block 2.
LruCoherentWitness ==
    /\ kind = "Disk"
    /\ DOMAIN db = {0, 1, 2}
    /\ result.op = "read"
    /\ result.id = 0
    /\ result.status = "ok"
    /\ hist.pos = db[0].offset + db[0].length
    /\ LruIds(decompressed_lru) = {0, 2}
    /\ LruPeek(decompressed_lru, 0) = orig[0]

\* C30 -- the fast path is a no-op: a read of block i on a disk store whose
\* current_block_id is i has its load_trie_blob(i) return Ok, whether or not
\* the metadata store answers queries, and leaves the LRU's contents and
\* recency order, the offset cache, the current trie, the backend and its
\* file position as they were; the read is served from the current trie.
FastPathNoOp ==
    [][(/\ kind = "Disk"
        /\ pc = "idle"
        /\ result'.op = "read"
        /\ current_block_id = <<result'.id>>) =>
          /\ UNCHANGED <<decompressed_lru, trie_offsets, current_block_id,
                         current_trie, fd, db>>
          /\ hist'.pos = hist.pos
          /\ hist'.used = hist.used
          /\ pc' = "idle"
          /\ result'.status = Codec(current_trie[1], result'.ptr).status
          /\ result'.bytes = Codec(current_trie[1], result'.ptr).bytes]_vars

\* A read of the current block succeeded although the block is not the most
\* recently used entry of the LRU and has no entry in the offset cache.
FastPathWitness ==
    /\ kind = "Disk"
    /\ result.op = "read"
    /\ result.status = "ok"
    /\ current_block_id = <<result.id>>
    /\ Len(decompressed_lru) = 2
    /\ decompressed_lru[1].id # result.id
    /\ result.id \notin DOMAIN trie_offsets

\* The block a store or a successful read has just returned is the most
\* recently used entry of the LRU.
MostRecent(lru, res) == lru # <<>> /\ lru[1].id = res.id

\* C31 -- insertion and access both refresh recency: on a disk store, after
\* store_trie_blob returned BlockId i and after every successful read of
\* block i, i is the most recently used entry of the decompressed-content LRU.
RefreshesRecency ==
    (kind = "Disk" /\ result.op \in {"store", "read"} /\ result.status = "ok") =>
        MostRecent(decompressed_lru, result)

\* C31, amended -- on a disk store, after store_trie_blob returned BlockId i,
\* and after every successful read of a block i that was not the currently
\* loaded block when the read began, i is the most recently used entry of the
\* LRU.
RefreshesRecencyOffCurrent ==
    [][(/\ kind = "Disk"
        /\ result'.op \in {"store", "read"}
        /\ result'.status = "ok"
        /\ ~(result'.op = "read" /\ current_block_id = <<result'.id>>)) =>
          MostRecent(decompressed_lru', result')]_vars

\* Block 1, resident in the LRU behind block 2 and not the current block, has
\* been read: the hit moved it to the front.
RefreshesRecencyWitness ==
    /\ kind = "Disk"
    /\ result.op = "read"
    /\ result.status = "ok"
    /\ result.id = 1
    /\ hist.used = <<1, 2, 0>>
    /\ Len(decompressed_lru) = 2
    /\ decompressed_lru[1].id = 1
    /\ decompressed_lru[2].id = 2
    /\ 1 \notin DOMAIN trie_offsets

\* The BlobLocation the metadata store records for block i.
BlobLocation(d, i) == [offset |-> d[i].offset, length |-> d[i].length]

\* A read of block i in this state calls get_trie_offset(i): always on the
\* RAM variant, on the disk variant when i is neither the current block nor
\* resident in the LRU.
CallsGetTrieOffset(i) ==
    \/ kind = "RAM"
    \/ current_block_id # <<i>> /\ ~LruHas(decompressed_lru, i)

\* C32 -- the offset cache, under stores and reads with a metadata store that
\* may fail the queries of a read: get_trie_offset(i) on a cached i answers
\* from the cache without a query (it succeeds while every query fails) and
\* leaves the cache as it is; on a miss it queries, and a query that succeeds
\* inserts the metadata store's location for i, one that fails inserts
\* nothing; no entry is ever removed or changed; every entry equals the
\* metadata store's current BlobLocation of its block, which is what the RAM
\* variant's read seeks to.
OffsetCacheBehaviour ==
    [][/\ \A i \in DOMAIN trie_offsets :
             i \in DOMAIN trie_offsets' /\ trie_offsets'[i] = trie_offsets[i]
       /\ \A i \in DOMAIN trie_offsets' :
             i \in DOMAIN db' /\ trie_offsets'[i] = BlobLocation(db', i)
       /\ (pc = "idle" /\ result'.op = "read" /\ CallsGetTrieOffset(result'.id)) =>
             LET i == result'.id
                 failed == result'.status \in {"db_error", "not_found"}
             IN  /\ i \in DOMAIN trie_offsets => ~failed /\ UNCHANGED trie_offsets
                 /\ (i \notin DOMAIN trie_offsets /\ failed) => UNCHANGED trie_offsets
                 /\ (i \notin DOMAIN trie_offsets /\ ~failed) =>
                       trie_offsets' = MapPut(trie_offsets, i, BlobLocation(db, i))
                 /\ (kind = "RAM" /\ ~failed) =>
                       result'.bytes =
                          Codec(fd, BlobLocation(db, i).offset + result'.ptr).bytes
       /\ (pc = "idle" /\ result'.op = "read" /\ ~CallsGetTrieOffset(result'.id)) =>
             UNCHANGED trie_offsets]_vars

\* The offset cache holds the location of every one of three blocks, and
\* block 1, evicted from the LRU since it was first loaded, has been loaded
\* from the file again at its location.
OffsetCacheWitness ==
    /\ kind = "Disk"
    /\ DOMAIN trie_offsets = {0, 1, 2}
    /\ result.op = "read"
    /\ result.status = "ok"
    /\ result.id = 1
    /\ hist.pos = trie_offsets[1].offset + trie_offsets[1].length
    /\ trie_offsets[1].offset > 0
    /\ LruIds(decompressed_lru) = {1, 2}

\* C33 -- export marks completion before vacuuming: export_trie_blobs marks
\* the migration complete only once the pass over block ids 0..max is over,
\* and whenever the post-migration vacuum of an export has started (it is
\* running, it has ended, or the machine crashed during it) the migration is
\* marked complete.
MarkedBeforeVacuum ==
    [][/\ (loc.op = "export" /\ marks' # marks) => loc.block_id > loc.max_block
       /\ (hist'.run.op = "export" /\ hist'.vacuum # "none") =>
             marks'.version >= 2]_vars

\* C34 -- the scratch-space environment is restored: whatever TMPDIR and
\* SQLITE_TMPDIR were before post_migrate_vacuum (each set or unset) and
\* whatever db_path is (with or without a parent directory), both variables
\* are as they were once it has returned, the vacuum having succeeded or
\* failed.
EnvRestored == pc = "vac_done" => loc.env = loc.entry

\* C35 -- vacuum failures do not fail the export: a post-migration vacuum that
\* fails (sql_vacuum or the file size queries) changes no metadata record and
\* leaves the export to go on; the export then marks the migration complete
\* and returns Ok, the records still as the pass over the blocks left them.
VacuumFailureMasked ==
    /\ [][/\ pc = "ex_vacuum" => (pc' = "ex_mark" /\ UNCHANGED <<db, marks, fd>>)
          /\ (pc = "ex_mark" /\ hist.vacuum = "failed") =>
                /\ marks'.version = 3
                /\ result' = Returned("export", "ok")
                /\ pc' = "idle"
                /\ hist'.run.state = "done"
                /\ UNCHANGED <<db, fd>>]_vars
    /\ (hist.vacuum = "failed")
          ~> (/\ hist.vacuum = "failed"
              /\ pc = "idle"
              /\ result = Returned("export", "ok")
              /\ marks.version = 3)

\* An export that moved two blocks out of the DB returned Ok and marked the
\* migration complete although its vacuum had failed.
VacuumFailureWitness ==
    /\ hist.vacuum = "failed"
    /\ hist.run.state = "done"
    /\ result = Returned("export", "ok")
    /\ marks.version = 3
    /\ Len(hist.appended) = 2
    /\ \A k \in 1..2 : db[hist.appended[k]].compression = "LZ4"

\* This step is the entry of compress_trie_blobs.
CompressEntered ==
    /\ pc = "idle"
    /\ hist'.runs = hist.runs + 1
    /\ hist'.run.op = "compress"

\* C36 -- compress with nothing to do: a compress_trie_blobs entered while the
\* metadata store has no uncompressed external blob marks the migration
\* complete and returns Ok at once, without creating or opening the new file,
\* without writing a byte to either file and without changing a record.
CompressNothingToDo ==
    [][(CompressEntered /\ UncompressedIds(db) = {}) =>
          /\ marks'.version = 3
          /\ result' = Returned("compress", "ok")
          /\ pc' = "idle"
          /\ hist'.run.state = "done"
          /\ hist'.created = 0
          /\ hist'.appended = <<>>
          /\ UNCHANGED <<db, fd, durable, v3>>]_vars

\* After an export that moved two blocks, compress_trie_blobs found nothing
\* to compress: it returned Ok, the migration is marked complete and no new
\* file exists.
CompressNothingWitness ==
    /\ hist.run = [op |-> "compress", state |-> "done", nth |-> 0]
    /\ hist.done.export = 1
    /\ result = Returned("compress", "ok")
    /\ marks.version = 3
    /\ ~v3.exists
    /\ hist.dbEntry = db
    /\ Cardinality({i \in DOMAIN db : db[i].compression = "LZ4"}) = 2

\* The block ids of a batch, in order, are pairwise different.
Distinct(seq) == \A j, k \in 1..Len(seq) : seq[j] = seq[k] => j = k

\* C37 -- compress terminates and processes each blob once, no call failing:
\* a compress_trie_blobs that entered its loop ends with Ok and the migration
\* marked complete; every batch is non-empty and made of blobs that are still
\* uncompressed, each of which leaves the uncompressed set when its record is
\* updated, so that every batch strictly decreases their number; and the
\* blobs appended to the new file are, each exactly once, those that were
\* uncompressed at entry.
CompressTerminates ==
    /\ [][/\ (pc = "cp_loop" /\ pc' = "cp_item") =>
                /\ loc'.batch # <<>>
                /\ Distinct([k \in 1..Len(loc'.batch) |-> loc'.batch[k].block_id])
                /\ \A k \in 1..Len(loc'.batch) :
                       loc'.batch[k].block_id \in UncompressedIds(db)
          /\ pc = "cp_update" =>
                /\ loc.block_id \in UncompressedIds(db)
                /\ UncompressedIds(db') = UncompressedIds(db) \ {loc.block_id}
          /\ pc # "cp_update" => UncompressedIds(db') = UncompressedIds(db)
          /\ (pc = "cp_loop" /\ pc' = "idle") =>
                /\ result' = Returned("compress", "ok")
                /\ marks'.version = 3
                /\ UncompressedIds(db) = {}
                /\ Distinct(hist.appended)
                /\ Ids(hist.appended) = UncompressedIds(hist.dbEntry)]_vars
    /\ (pc = "cp_loop")
          ~> (/\ pc = "idle"
              /\ result = Returned("compress", "ok")
              /\ hist.run.state = "done"
              /\ marks.version = 3)

\* A compression of three blobs, in two batches, has ended: each of the
\* three was appended once and the migration is marked complete.
CompressTerminatesWitness ==
    /\ hist.run = [op |-> "compress", state |-> "done", nth |-> 0]
    /\ result = Returned("compress", "ok")
    /\ marks.version = 3
    /\ v3.exists
    /\ hist.appended = <<0, 1, 2>>
    /\ UncompressedIds(hist.dbEntry) = {0, 1, 2}
    /\ UncompressedIds(db) = {}

\* The byte ranges recorded for two blocks share a byte.
Overlap(d, i, j) ==
    /\ d[i].length > 0
    /\ d[j].length > 0
    /\ d[i].offset < d[j].offset + d[j].length
    /\ d[j].offset < d[i].offset + d[i].length

NoOverlap(d) == \A i, j \in DOMAIN d : i # j => ~Overlap(d, i, j)

\* C38 -- migration needs exclusive access: as long as no store through
\* another handle has run between an export's offset computation and its
\* metadata update, no two BlockIds have overlapping recorded byte ranges.
\* (That such a store corrupts the offset index is the state
\* SharedCorruptionWitness describes.)
ExclusiveExportSafe == ~hist.raced => NoOverlap(db)

\* A store through another handle ran between an export's offset computation
\* and its metadata update: the ranges recorded for two blocks overlap, and
\* the range recorded for one of them does not hold that block's bytes.
SharedCorruptionWitness ==
    /\ hist.raced
    /\ \E i, j \in DOMAIN db :
          /\ i # j
          /\ Overlap(db, i, j)
          /\ db[i].compression = "LZ4"
          /\ Inflated(fd, db[i].offset, db[i].length) # Is(orig[i])

\* C39 -- caches stay valid across compression: once compress_trie_blobs has
\* returned Ok on a store instance, get_trie_offset(i) on that instance gives,
\* for every block i, the BlobLocation the metadata store records for i (so
\* that a read of i that goes to the backend reads at that location).
OffsetsValidAfterCompress ==
    (hist.run = [op |-> "compress", state |-> "done", nth |-> hist.run.nth]
     /\ pc = "idle") =>
        \A i \in DOMAIN db :
            GetTrieOffset(trie_offsets, i, FALSE).at = BlobLocation(db, i)

\* A read of block j, at ptr, ends on an error of its load_trie_blob: a
\* metadata lookup that failed or found nothing, or an I/O error on a block
\* whose trie is long enough for the codec to succeed at ptr.
LoadFailed(res) ==
    /\ res.op = "read"
    /\ \/ res.status \in {"db_error", "not_found"}
       \/ /\ res.status = "io_error"
          /\ res.id \in DOMAIN orig
          /\ Len(orig[res.id]) >= res.ptr + ReadLen

\* C40 -- a failed load changes nothing: when the load_trie_blob(j) of a read
\* on a disk store returns an error, current_block_id, current_trie and the
\* LRU are as before the call, a failed metadata lookup adds no offset-cache
\* entry (a lookup that succeeded before the I/O failure adds j's location),
\* and the current trie still holds the bytes of the block that was current.
FailedLoadChangesNothing ==
    [][(kind = "Disk" /\ pc = "idle" /\ LoadFailed(result')) =>
          /\ UNCHANGED <<decompressed_lru, current_block_id, current_trie, fd, db>>
          /\ pc' = "idle"
          /\ result'.status \in {"db_error", "not_found"} => UNCHANGED trie_offsets
          /\ result'.status = "io_error" =>
                trie_offsets' = MapPut(trie_offsets, result'.id, BlobLocation(db, result'.id))
          /\ current_block_id # <<>> =>
                /\ current_block_id' # <<result'.id>>
                /\ current_trie' = <<orig[current_block_id'[1]]>>]_vars

\* With block 0 current, a load of block 2 failed on the blob file after its
\* location had been looked up: block 0 is still the current trie and block 2
\* is in the offset cache, not in the LRU.
FailedLoadWitness ==
    /\ kind = "Disk"
    /\ result.op = "read"
    /\ result.status = "io_error"
    /\ result.id = 2
    /\ orig[2] # <<>>
    /\ current_block_id = <<0>>
    /\ current_trie = <<orig[0]>>
    /\ 2 \in DOMAIN trie_offsets
    /\ ~LruHas(decompressed_lru, 2)
    /\ hist.pos = trie_offsets[2].offset
====
